---- MODULE Spec2Model ----
(***************************************************************************)
(* cosmos-api-watch: the worker of src/worker/runner.py and the probes     *)
(* of worker/checker.py.                                                   *)
(*                                                                         *)
(* main_loop opens a session, runs process_batch once, commits or rolls    *)
(* back, closes the session and sleeps.  process_batch selects the enabled *)
(* endpoints joined to their network, probes each one, adds a Check row    *)
(* and upserts the EndpointStatus row, and commits once at the end.        *)
(*                                                                         *)
(* The store is modelled as the committed tables (db_checks, db_status)    *)
(* and the open session's uncommitted work (sess_checks, sess_status).     *)
(* A nullable column is a sequence of length 0 (NULL) or 1 (a value).      *)
(*                                                                         *)
(* The probes are pure functions of what their HTTP gets do.  ProbeSpec    *)
(* calls each of them once on an input drawn from bounded sets of          *)
(* responses, expected chain ids, clock readings and exception texts.      *)
(*                                                                         *)
(* SyncSpec runs init_data (core/init_data.py) twice on a stored registry  *)
(* and a config drawn from bounded sets; SummarySpec answers one request of*)
(* network_summary (api/routes.py) over a bounded EndpointStatus table.    *)
(***************************************************************************)
EXTENDS Integers, Sequences, FiniteSets, TLC

VARIABLES
    endpoints,    \* Endpoint table: id -> [network_id, type, enabled]
    networks,     \* Network table: set of rows [id, chain_id]
    batch_limit,  \* BATCH_LIMIT, read from the environment at start-up
    db_checks,    \* committed Check rows, in insertion (id) order
    db_status,    \* committed EndpointStatus rows
    sess_checks,  \* Check rows added to the open session, not yet committed
    sess_status,  \* EndpointStatus table as the open session sees it
    pc,           \* position of main_loop
    rows,         \* process_batch: the result of the endpoint query
    idx,          \* process_batch: position of the for loop in rows
    clock,        \* the wall clock read by datetime.now(timezone.utc)
    iter,         \* number of iterations of main_loop started so far
    probes,       \* endpoint ids probed so far in the current iteration
    raised,       \* endpoint id whose step raised in the current iteration, or 0
    pre_checks,   \* db_checks when the current iteration started
    pre_status,   \* db_status when the current iteration started
    failed,       \* the iterations in which process_batch raised
    inp,          \* a probe called on its own: the function and what its gets do
    out,          \* what that call gave back
    ppc,          \* position of that call
    autoflush,    \* whether SessionLocal makes sessions that flush before a query
    cfg,          \* config/networks.yaml as load_config returns it
    store,        \* committed Project, Network and Endpoint tables of the registry
    store_before, \* store when the last run of init_data started
    sync_outcome, \* how the last run of init_data ended
    spc,          \* position of the start-up sync
    request,      \* a GET of the network summary: network_type and max_delay
    response,     \* what network_summary answered
    hpc           \* position of that request

vars == <<endpoints, networks, batch_limit, db_checks, db_status, sess_checks,
          sess_status, pc, rows, idx, clock, iter, probes, raised,
          pre_checks, pre_status, failed, inp, out, ppc, autoflush, cfg, store,
          store_before, sync_outcome, spc, request, response, hpc>>

worker == <<endpoints, networks, batch_limit, db_checks, db_status, sess_checks,
            sess_status, pc, rows, idx, clock, iter, probes, raised,
            pre_checks, pre_status, failed>>

probe == <<inp, out, ppc>>

sync == <<autoflush, cfg, store, store_before, sync_outcome, spc>>

summary == <<request, response, hpc>>

registry == <<endpoints, networks, batch_limit>>

\* ------------------------------------------------------------------ bounds
NumEndpoints == 2
MaxIter == 2
MaxBatchLimit == 2

\* ------------------------------------------------------------------ values
None == <<>>
Some(v) == <<v>>

EndpointIds == 1..NumEndpoints

EndpointTypes == <<"rpc", "grpc", "api">>

\* The chain ids of the two networks; an empty chain_id is stored as "".
NetworkChainIds == <<"cosmoshub-4", "">>

NetworkIds == 1..Len(NetworkChainIds)

\* ------------------------------------------------------------ probe results
\* The 5-tuple (is_available, http_status, block_delay_ms, block_height,
\* error_message) returned by check_rpc_endpoint / check_api_endpoint.
ProbeTuple(ok, http, delay, height, err) ==
    [is_ok |-> ok, http_status |-> http, block_delay_ms |-> delay,
     block_height |-> height, error_msg |-> err]

\* ------------------------------------------------- exception messages
\* str(e) of an exception is modelled by the fragments it contains and by
\* its length.  These are the fragments the classifiers look for, one of
\* them also in another capitalisation.
Phrases ==
    {"handshake operation timed out", "Name or service not known",
     "Temporary failure in name resolution", "Connection refused",
     "timed out", "Timed Out"}

Message(has, len) == [has |-> has, len |-> len]

NoMessage == Message({}, 0)

\* str.lower() on a fragment
Lower(p) ==
    CASE p = "Timed Out" -> "timed out"
      [] p = "Name or service not known" -> "name or service not known"
      [] p = "Temporary failure in name resolution" -> "temporary failure in name resolution"
      [] p = "Connection refused" -> "connection refused"
      [] OTHER -> p

\* sub in p, for the fragments above
SubstringOf(sub, p) ==
    \/ sub = p
    \/ sub = "timed out" /\ p = "handshake operation timed out"

\* sub in msg
Contains(msg, sub) == \E p \in msg.has : SubstringOf(sub, p)

\* sub in msg.lower()
ContainsLower(msg, sub) == \E p \in msg.has : SubstringOf(sub, Lower(p))

\* msg[:400]
ExceptionTextLimit == 400

Truncate(msg, n) == Message(msg.has, IF msg.len < n THEN msg.len ELSE n)

\* An error_message: its code, the HTTP status of HTTP_STATUS_<code>, the
\* texts interpolated into it, and the exception text that follows
\* "EXCEPTION: " or "INVALID_JSON: ".
Error(code, status, args, msg) ==
    [code |-> code, status |-> status, args |-> args, msg |-> msg]

PlainError(code) == Error(code, 0, <<>>, NoMessage)

\* A slip that tests the generic timeout before the TLS handshake timeout.
ClassifyRpcTimeoutFirst(msg) ==
    IF ContainsLower(msg, "timed out")
    THEN PlainError("REQUEST_TIMEOUT")
    ELSE IF Contains(msg, "handshake operation timed out")
    THEN PlainError("TLS_HANDSHAKE_TIMEOUT")
    ELSE IF \/ Contains(msg, "Name or service not known")
            \/ Contains(msg, "Temporary failure in name resolution")
    THEN PlainError("DNS_RESOLUTION_FAILED")
    ELSE IF Contains(msg, "Connection refused")
    THEN PlainError("CONNECTION_REFUSED")
    ELSE Error("EXCEPTION", 0, <<>>, Truncate(msg, ExceptionTextLimit))

\* The except branch of check_rpc_endpoint.
ClassifyRpc(msg) ==
    IF Contains(msg, "handshake operation timed out")
    THEN PlainError("TLS_HANDSHAKE_TIMEOUT")
    ELSE IF \/ Contains(msg, "Name or service not known")
            \/ Contains(msg, "Temporary failure in name resolution")
    THEN PlainError("DNS_RESOLUTION_FAILED")
    ELSE IF Contains(msg, "Connection refused")
    THEN PlainError("CONNECTION_REFUSED")
    ELSE IF ContainsLower(msg, "timed out")
    THEN PlainError("REQUEST_TIMEOUT")
    ELSE Error("EXCEPTION", 0, <<>>, Truncate(msg, ExceptionTextLimit))

\* A slip that tests the refused connection before the DNS failure.
NormalizeErrorRefusedFirst(msg) ==
    IF Contains(msg, "handshake operation timed out")
    THEN PlainError("TLS_HANDSHAKE_TIMEOUT")
    ELSE IF Contains(msg, "Connection refused")
    THEN PlainError("CONNECTION_REFUSED")
    ELSE IF \/ Contains(msg, "Name or service not known")
            \/ Contains(msg, "Temporary failure in name resolution")
    THEN PlainError("DNS_RESOLUTION_FAILED")
    ELSE IF ContainsLower(msg, "timed out")
    THEN PlainError("REQUEST_TIMEOUT")
    ELSE Error("EXCEPTION", 0, <<>>, Truncate(msg, ExceptionTextLimit))

\* _normalize_error of check_api_endpoint.
NormalizeError(msg) ==
    IF Contains(msg, "handshake operation timed out")
    THEN PlainError("TLS_HANDSHAKE_TIMEOUT")
    ELSE IF \/ Contains(msg, "Name or service not known")
            \/ Contains(msg, "Temporary failure in name resolution")
    THEN PlainError("DNS_RESOLUTION_FAILED")
    ELSE IF Contains(msg, "Connection refused")
    THEN PlainError("CONNECTION_REFUSED")
    ELSE IF ContainsLower(msg, "timed out")
    THEN PlainError("REQUEST_TIMEOUT")
    ELSE Error("EXCEPTION", 0, <<>>, Truncate(msg, ExceptionTextLimit))

\* ------------------------------------------------------- block times
\* A timestamp text is a sequence of tokens: the "YYYY-MM-DDTHH:MM:SS"
\* block (dt, its value in seconds), ".", one digit, "Z", "+", "-", the
\* "HH:MM" of an offset (tz, its value in seconds), or any other
\* character (junk).
Tok(k, v) == [k |-> k, v |-> v]

\* The position of the first token of kind k in ts, 0 when there is none.
IndexOf(ts, k) ==
    IF \E i \in 1..Len(ts) : ts[i].k = k
    THEN CHOOSE i \in 1..Len(ts) :
            /\ ts[i].k = k
            /\ \A j \in 1..(i - 1) : ts[j].k # k
    ELSE 0

\* s[:n]
Take(s, n) == SubSeq(s, 1, IF Len(s) < n THEN Len(s) ELSE n)

\* s[i:]
Drop(s, i) == SubSeq(s, i, Len(s))

\* if ts.endswith("Z"): ts = ts[:-1] + "+00:00"
ReplaceZ(ts) ==
    IF Len(ts) > 0 /\ ts[Len(ts)].k = "Z"
    THEN SubSeq(ts, 1, Len(ts) - 1) \o <<Tok("+", 0), Tok("tz", 0)>>
    ELSE ts

\* cut nanoseconds to microseconds (6 digits)
CutFraction(ts) ==
    LET dot == IndexOf(ts, ".") IN
    IF dot = 0 THEN ts
    ELSE LET before == SubSeq(ts, 1, dot - 1)
             after == Drop(ts, dot + 1)
             plus == IndexOf(after, "+")
             minus == IndexOf(after, "-")
         IN IF plus # 0
            THEN before \o <<Tok(".", 0)>> \o Take(SubSeq(after, 1, plus - 1), 6)
                        \o <<Tok("+", 0)>> \o Drop(after, plus + 1)
            ELSE IF minus # 0
            THEN before \o <<Tok(".", 0)>> \o Take(SubSeq(after, 1, minus - 1), 6)
                        \o <<Tok("-", 0)>> \o Drop(after, minus + 1)
            ELSE before \o <<Tok(".", 0)>> \o Take(after, 6)

\* The number of digit tokens of ts from position from on.
DigitRun(ts, from) ==
    CHOOSE n \in 0..Len(ts) :
        /\ \A i \in from..(from + n - 1) : i <= Len(ts) /\ ts[i].k = "digit"
        /\ (from + n > Len(ts) \/ ts[from + n].k # "digit")

MicrosPerSecond == 1000000

PlaceValue == <<100000, 10000, 1000, 100, 10, 1>>

RECURSIVE FractionMicros(_, _)
FractionMicros(digits, i) ==
    IF i > Len(digits) \/ i > Len(PlaceValue) THEN 0
    ELSE digits[i].v * PlaceValue[i] + FractionMicros(digits, i + 1)

\* datetime.fromisoformat(ts), then UTC: the instant in microseconds, or
\* None when it raises.  strict_iso is the parser of Python before 3.11,
\* which takes a fraction of exactly 3 or 6 digits only; the later parser
\* takes any fraction, an empty one when an offset follows.
FromIsoFormat(ts, strict_iso) ==
    IF Len(ts) = 0 \/ ts[1].k # "dt" THEN None
    ELSE LET has_dot == Len(ts) >= 2 /\ ts[2].k = "."
             n == IF has_dot THEN DigitRun(ts, 3) ELSE 0
             digits == IF has_dot THEN SubSeq(ts, 3, 2 + n) ELSE <<>>
             rest == IF has_dot THEN Drop(ts, 3 + n) ELSE Drop(ts, 2)
             frac_ok == \/ ~has_dot
                        \/ (IF strict_iso THEN n \in {3, 6}
                            ELSE n >= 1 \/ rest # <<>>)
             zone_ok == \/ rest = <<>>
                        \/ /\ Len(rest) = 2
                           /\ rest[1].k \in {"+", "-"}
                           /\ rest[2].k = "tz"
             offset == IF rest = <<>> THEN 0
                       ELSE IF rest[1].k = "+" THEN rest[2].v ELSE 0 - rest[2].v
         IN IF frac_ok /\ zone_ok
            THEN Some((ts[1].v - offset) * MicrosPerSecond + FractionMicros(digits, 1))
            ELSE None

\* _parse_block_time
ParseBlockTime(ts, strict_iso) ==
    IF ts = <<>> THEN None
    ELSE FromIsoFormat(CutFraction(ReplaceZ(ts)), strict_iso)

\* The differences, in microseconds, met below whose double product
\* total_seconds() * 1000 falls just under the whole millisecond:
\* 1.001 * 1000 is 1000.9999999999999.
RoundsBelow == {1001000}

\* int((now_utc - dt).total_seconds() * 1000) for a difference of us
\* microseconds: int() rounds the double product towards zero.
IntMillis(us) ==
    IF us \in RoundsBelow THEN (us \div 1000) - 1
    ELSE IF us >= 0 THEN us \div 1000
    ELSE 0 - ((0 - us) \div 1000)

\* A slip that reports no delay, 0, for a block time that does not parse.
CalcBlockDelayMsZeroOnError(block_time_str, now_us, strict_iso) ==
    IF block_time_str = None \/ block_time_str = Some(<<>>) THEN None
    ELSE LET dt == ParseBlockTime(block_time_str[1], strict_iso) IN
         IF dt = None THEN Some(0)
         ELSE LET diff_ms == IntMillis(now_us - dt[1]) IN
              Some(IF diff_ms < 0 THEN 0 ELSE diff_ms)

\* _calc_block_delay_ms; now_us is its own reading of the clock.
CalcBlockDelayMs(block_time_str, now_us, strict_iso) ==
    IF block_time_str = None \/ block_time_str = Some(<<>>) THEN None
    ELSE LET dt == ParseBlockTime(block_time_str[1], strict_iso) IN
         IF dt = None THEN None
         ELSE LET diff_ms == IntMillis(now_us - dt[1]) IN
              Some(IF diff_ms < 0 THEN 0 ELSE diff_ms)

\* ------------------------------------------------------ HTTP responses
\* What one httpx.get does: it raises (raises, msg), or it returns a
\* response with a status code and a body.  The body is not JSON
\* ("invalid"), JSON that is not an object ("nondict"), or an object
\* ("object") with the chain id, height and block time read from it, each
\* absent (None) or a string.
Body(json, chain, height, time) ==
    [json |-> json, chain |-> chain, height |-> height, time |-> time]

NoBody == Body("invalid", None, None, None)

HttpResponse(status, body) ==
    [raises |-> FALSE, msg |-> NoMessage, status |-> status, body |-> body]

HttpRaises(msg) ==
    [raises |-> TRUE, msg |-> msg, status |-> 0, body |-> NoBody]

\* What a call does: it returns a probe tuple or it raises.
Return(t) == [raised |-> FALSE, msg |-> NoMessage, result |-> t]

Raise(msg) ==
    [raised |-> TRUE, msg |-> msg, result |-> ProbeTuple(FALSE, None, None, None, None)]

\* str(e) of the JSONDecodeError of resp.json()
JsonErrorMessage == Message({}, 41)

\* str(e) of the AttributeError of data.get on a JSON value that is not
\* an object
AttributeErrorMessage == Message({}, 40)

HttpStatusError(status) == Error("HTTP_STATUS", status, <<>>, NoMessage)

InvalidJsonError == Error("INVALID_JSON", 0, <<>>, JsonErrorMessage)

\* A slip that interpolates the two chain ids the other way round.
ChainIdMismatchErrorSwapped(expected, got) ==
    Error("CHAIN_ID_MISMATCH", 0, <<got, expected>>, NoMessage)

\* f"CHAIN_ID_MISMATCH: expected={expected_chain_id}, got={network}"
ChainIdMismatchError(expected, got) ==
    Error("CHAIN_ID_MISMATCH", 0, <<expected, got>>, NoMessage)

\* bool(x) of an optional string
Truthy(opt) == opt # None /\ opt[1] # ""

\* The try block of check_rpc_endpoint: GET {base_url}/status, then
\* result.node_info.network and result.sync_info.latest_block_height /
\* latest_block_time.  An exception of the get or of data.get leaves it.
CheckRpcTry(resp, expected_chain_id, now_us, strict_iso) ==
    IF resp.raises THEN Raise(resp.msg)
    ELSE IF resp.status < 200 \/ resp.status >= 300
    THEN Return(ProbeTuple(FALSE, Some(resp.status), None, None,
                           Some(HttpStatusError(resp.status))))
    ELSE IF resp.body.json = "invalid"
    THEN Return(ProbeTuple(FALSE, Some(resp.status), None, None,
                           Some(InvalidJsonError)))
    ELSE IF resp.body.json = "nondict"
    THEN Raise(AttributeErrorMessage)
    ELSE LET network == resp.body.chain
             latest_block_height == resp.body.height
             latest_block_time_str == resp.body.time
             delay_ms == CalcBlockDelayMs(latest_block_time_str, now_us, strict_iso)
         IN IF Truthy(expected_chain_id) /\ Truthy(network)
                /\ network # expected_chain_id
            THEN Return(ProbeTuple(FALSE, Some(resp.status), delay_ms,
                        latest_block_height,
                        Some(ChainIdMismatchError(expected_chain_id[1], network[1]))))
            ELSE IF delay_ms = None
            THEN Return(ProbeTuple(FALSE, Some(resp.status), None,
                                   latest_block_height,
                                   Some(PlainError("INVALID_BLOCK_TIME"))))
            ELSE Return(ProbeTuple(TRUE, Some(resp.status), delay_ms,
                                   latest_block_height, None))

\* A slip that lets the exception out of check_rpc_endpoint.
CheckRpcEndpointNoExcept(resp, expected_chain_id, now_us, strict_iso) ==
    CheckRpcTry(resp, expected_chain_id, now_us, strict_iso)

\* check_rpc_endpoint: the try block and its except branch.
CheckRpcEndpoint(resp, expected_chain_id, now_us, strict_iso) ==
    LET o == CheckRpcTry(resp, expected_chain_id, now_us, strict_iso) IN
    IF o.raised
    THEN Return(ProbeTuple(FALSE, None, None, None, Some(ClassifyRpc(o.msg))))
    ELSE o

\* _check_rest_block_latest: GET base_url + path, then
\* block.header.chain_id / height / time.  Nothing is caught here.
CheckRestBlockLatest(resp, expected_chain_id, now_us, strict_iso) ==
    IF resp.raises THEN Raise(resp.msg)
    ELSE IF resp.status < 200 \/ resp.status >= 300
    THEN Return(ProbeTuple(FALSE, Some(resp.status), None, None,
                           Some(HttpStatusError(resp.status))))
    ELSE IF resp.body.json = "invalid"
    THEN Return(ProbeTuple(FALSE, Some(resp.status), None, None,
                           Some(InvalidJsonError)))
    ELSE IF resp.body.json = "nondict"
    THEN Raise(AttributeErrorMessage)
    ELSE LET chain_id == resp.body.chain
             height == resp.body.height
             time_str == resp.body.time
             delay_ms == CalcBlockDelayMs(time_str, now_us, strict_iso)
         IN IF Truthy(expected_chain_id) /\ Truthy(chain_id)
                /\ chain_id # expected_chain_id
            THEN Return(ProbeTuple(FALSE, Some(resp.status), delay_ms, height,
                        Some(ChainIdMismatchError(expected_chain_id[1], chain_id[1]))))
            ELSE IF delay_ms = None
            THEN Return(ProbeTuple(FALSE, Some(resp.status), None, height,
                                   Some(PlainError("INVALID_BLOCK_TIME"))))
            ELSE Return(ProbeTuple(TRUE, Some(resp.status), delay_ms, height, None))

\* fallback #3: GET base_url, only the status is looked at.
CheckAlive(resp) ==
    IF resp.raises THEN Raise(resp.msg)
    ELSE IF resp.status < 200 \/ resp.status >= 300
    THEN Return(ProbeTuple(FALSE, Some(resp.status), None, None,
                           Some(HttpStatusError(resp.status))))
    ELSE Return(ProbeTuple(TRUE, Some(resp.status), None, None, None))

\* err.startswith(prefix) for a classified error
StartsWith(err, prefix) ==
    CASE prefix = "DNS_" -> err.code = "DNS_RESOLUTION_FAILED"
      [] prefix = "TLS_" -> err.code = "TLS_HANDSHAKE_TIMEOUT"
      [] prefix = "REQUEST_TIMEOUT" -> err.code = "REQUEST_TIMEOUT"
      [] OTHER -> FALSE

\* for err in errs: if err.startswith(prefix): return err
FirstWith(errs, prefix) ==
    IF \E i \in 1..Len(errs) : StartsWith(errs[i], prefix)
    THEN CHOOSE i \in 1..Len(errs) :
            /\ StartsWith(errs[i], prefix)
            /\ \A j \in 1..(i - 1) : ~StartsWith(errs[j], prefix)
    ELSE 0

\* A slip that looks for the TLS error before the DNS error.
MostHelpfulErrorTlsFirst(errs) ==
    IF FirstWith(errs, "TLS_") # 0 THEN errs[FirstWith(errs, "TLS_")]
    ELSE IF FirstWith(errs, "DNS_") # 0 THEN errs[FirstWith(errs, "DNS_")]
    ELSE IF FirstWith(errs, "REQUEST_TIMEOUT") # 0
    THEN errs[FirstWith(errs, "REQUEST_TIMEOUT")]
    ELSE errs[1]

\* priority: DNS, TLS, TIMEOUT, then err1 (a classified error is never
\* an empty string, so "err1 or err2 or err3" is err1)
MostHelpfulError(errs) ==
    IF FirstWith(errs, "DNS_") # 0 THEN errs[FirstWith(errs, "DNS_")]
    ELSE IF FirstWith(errs, "TLS_") # 0 THEN errs[FirstWith(errs, "TLS_")]
    ELSE IF FirstWith(errs, "REQUEST_TIMEOUT") # 0
    THEN errs[FirstWith(errs, "REQUEST_TIMEOUT")]
    ELSE errs[1]

PathNew == "/cosmos/base/tendermint/v1beta1/blocks/latest"

PathOld == "/blocks/latest"

PathBase == ""

\* What check_api_endpoint did: the call's outcome and the paths it
\* requested, in order.
ApiRun(outcome, requested) == [outcome |-> outcome, requested |-> requested]

\* A slip that goes on to the next strategy when a strategy returned an
\* unavailable result.
CheckApiEndpointRunFallsThrough(r1, r2, r3, expected_chain_id, now_us, strict_iso) ==
    LET o1 == CheckRestBlockLatest(r1, expected_chain_id, now_us, strict_iso)
        o2 == CheckRestBlockLatest(r2, expected_chain_id, now_us, strict_iso)
        o3 == CheckAlive(r3)
    IN IF ~o1.raised /\ o1.result.is_ok THEN ApiRun(o1, <<PathNew>>)
       ELSE IF ~o2.raised /\ o2.result.is_ok THEN ApiRun(o2, <<PathNew, PathOld>>)
       ELSE IF ~o3.raised THEN ApiRun(o3, <<PathNew, PathOld, PathBase>>)
       ELSE ApiRun(Return(ProbeTuple(FALSE, None, None, None,
                       Some(MostHelpfulError(<<NormalizeError(o1.msg),
                                               NormalizeError(o2.msg),
                                               NormalizeError(o3.msg)>>)))),
                   <<PathNew, PathOld, PathBase>>)

\* check_api_endpoint, with r1, r2, r3 what the three gets would do.
CheckApiEndpointRun(r1, r2, r3, expected_chain_id, now_us, strict_iso) ==
    LET o1 == CheckRestBlockLatest(r1, expected_chain_id, now_us, strict_iso)
        o2 == CheckRestBlockLatest(r2, expected_chain_id, now_us, strict_iso)
        o3 == CheckAlive(r3)
    IN IF ~o1.raised THEN ApiRun(o1, <<PathNew>>)
       ELSE IF ~o2.raised THEN ApiRun(o2, <<PathNew, PathOld>>)
       ELSE IF ~o3.raised THEN ApiRun(o3, <<PathNew, PathOld, PathBase>>)
       ELSE ApiRun(Return(ProbeTuple(FALSE, None, None, None,
                       Some(MostHelpfulError(<<NormalizeError(o1.msg),
                                               NormalizeError(o2.msg),
                                               NormalizeError(o3.msg)>>)))),
                   <<PathNew, PathOld, PathBase>>)

CheckApiEndpoint(r1, r2, r3, expected_chain_id, now_us, strict_iso) ==
    CheckApiEndpointRun(r1, r2, r3, expected_chain_id, now_us, strict_iso).outcome

\* ------------------------------------------------ what the worker meets
Dt(s) == Tok("dt", s)

Digit(d) == Tok("digit", d)

Z == Tok("Z", 0)

Dot == Tok(".", 0)

Plus == Tok("+", 0)

Minus == Tok("-", 0)

Tz(s) == Tok("tz", s)

Junk == Tok("junk", 0)

\* The clock reading of _calc_block_delay_ms during the worker's probes,
\* in microseconds.
WorkerNow == 100000000

\* What the gets of the worker's probes may do: a node of the expected
\* chain with a block 5 s old, a node of another chain whose block time is
\* 2 s ahead of the worker's clock, and a request that times out.
WorkerResponses ==
    {HttpResponse(200, Body("object", Some("cosmoshub-4"), Some("100"),
                            Some(<<Dt(95), Z>>))),
     HttpResponse(200, Body("object", Some("other-1"), Some("100"),
                            Some(<<Dt(102), Z>>))),
     HttpRaises(Message({"timed out"}, 30))}

\* The values of net.chain_id or None over the Network table.
ExpectedChainIds == {None} \cup {Some(c) : c \in {NetworkChainIds[n] : n \in NetworkIds} \ {""}}

\* The results of check_rpc_endpoint over WorkerResponses, per expected chain id.
RpcResults ==
    [expected_chain_id \in ExpectedChainIds |->
        {CheckRpcEndpoint(r, expected_chain_id, WorkerNow, FALSE).result :
            r \in WorkerResponses}]

\* The results of check_api_endpoint over WorkerResponses, per expected chain id.
ApiResults ==
    [expected_chain_id \in ExpectedChainIds |->
        {CheckApiEndpoint(r1, r2, r3, expected_chain_id, WorkerNow, FALSE).result :
            r1 \in WorkerResponses, r2 \in WorkerResponses, r3 \in WorkerResponses}]

\* net.chain_id or None
ExpectedChainId(net) == IF net.chain_id = "" THEN None ELSE Some(net.chain_id)

\* A slip that passes the network's chain id for every type.
CallProbeAlwaysExpects(ep, net) ==
    IF ep.type = "rpc" THEN RpcResults[ExpectedChainId(net)]
    ELSE ApiResults[ExpectedChainId(net)]

\* The probe dispatch of process_batch: rpc and api are called with the
\* network's chain id, any other type goes to the api probe without one.
CallProbe(ep, net) ==
    IF ep.type = "rpc" THEN RpcResults[ExpectedChainId(net)]
    ELSE IF ep.type = "api" THEN ApiResults[ExpectedChainId(net)]
    ELSE ApiResults[None]

\* ------------------------------------------------------------------- rows
NewCheck(ep_id, r, now_utc) ==
    [endpoint_id |-> ep_id,
     is_available |-> r.is_ok,
     status_code |-> r.http_status,
     block_delay_ms |-> r.block_delay_ms,
     last_block_height |-> r.block_height,
     error_message |-> r.error_msg,
     checked_at |-> now_utc]

NewStatus(ep_id, r, now_utc) ==
    [endpoint_id |-> ep_id,
     is_available |-> r.is_ok,
     status_code |-> r.http_status,
     block_delay_ms |-> r.block_delay_ms,
     last_block_height |-> r.block_height,
     error_message |-> r.error_msg,
     checked_at |-> now_utc]

\* A slip that leaves the old error text on the row.
UpdateStatusKeepsError(status, r, now_utc) ==
    [status EXCEPT !.is_available = r.is_ok,
                   !.status_code = r.http_status,
                   !.block_delay_ms = r.block_delay_ms,
                   !.last_block_height = r.block_height,
                   !.checked_at = now_utc]

\* A slip that leaves the old stamp on the row.
UpdateStatusStaleTime(status, r, now_utc) ==
    [status EXCEPT !.is_available = r.is_ok,
                   !.status_code = r.http_status,
                   !.block_delay_ms = r.block_delay_ms,
                   !.last_block_height = r.block_height,
                   !.error_message = r.error_msg]

UpdateStatus(status, r, now_utc) ==
    [status EXCEPT !.is_available = r.is_ok,
                   !.status_code = r.http_status,
                   !.block_delay_ms = r.block_delay_ms,
                   !.last_block_height = r.block_height,
                   !.error_message = r.error_msg,
                   !.checked_at = now_utc]

\* db.query(EndpointStatus).filter(endpoint_id == ep_id).first():
\* the position of the first matching row, 0 when there is none.
FirstStatus(table, ep_id) ==
    IF \E i \in 1..Len(table) : table[i].endpoint_id = ep_id
    THEN CHOOSE i \in 1..Len(table) :
            /\ table[i].endpoint_id = ep_id
            /\ \A j \in 1..(i - 1) : table[j].endpoint_id # ep_id
    ELSE 0

\* A slip that inserts a new row at every check.
UpsertStatusAlwaysInsert(table, ep_id, r, now_utc) ==
    Append(table, NewStatus(ep_id, r, now_utc))

\* insert if absent, else overwrite the row in place
UpsertStatus(table, ep_id, r, now_utc) ==
    LET i == FirstStatus(table, ep_id) IN
    IF i = 0
    THEN Append(table, NewStatus(ep_id, r, now_utc))
    ELSE [table EXCEPT ![i] = UpdateStatus(table[i], r, now_utc)]

\* ------------------------------------------------------------ the query
\* A slip that drops the enabled filter.
JoinAll ==
    {<<e, n>> \in EndpointIds \X networks : endpoints[e].network_id = n.id}

\* A slip that drops the join condition.
JoinEnabledCross ==
    {<<e, n>> \in EndpointIds \X networks : endpoints[e].enabled}

\* Endpoint JOIN Network ON Endpoint.network_id = Network.id
\* WHERE Endpoint.enabled IS TRUE
JoinEnabled ==
    {<<e, n>> \in EndpointIds \X networks :
        /\ endpoints[e].network_id = n.id
        /\ endpoints[e].enabled}

Min(a, b) == IF a < b THEN a ELSE b

\* A slip that asks for one row less than BATCH_LIMIT.
SelectRowsOneShort ==
    LET joined == JoinEnabled
        n == Min(batch_limit - 1, Cardinality(joined))
    IN {s \in [1..n -> joined] : \A i, j \in 1..n : s[i] = s[j] => i = j}

\* A slip that leaves the limit out of the query.
SelectRowsNoLimit ==
    LET joined == JoinEnabled
        n == Cardinality(joined)
    IN {s \in [1..n -> joined] : \A i, j \in 1..n : s[i] = s[j] => i = j}

\* .limit(BATCH_LIMIT).all(): the query has no ORDER BY, so any
\* BATCH_LIMIT of the joined rows may come back, in any order.
SelectRows ==
    LET joined == JoinEnabled
        n == Min(batch_limit, Cardinality(joined))
    IN {s \in [1..n -> joined] : \A i, j \in 1..n : s[i] = s[j] => i = j}

\* --------------------------------------------------------------- Init
\* Endpoints 1 and 2 belong to network 1, endpoints 3 and 4 to network 2, ...
NetworkOf(e) == (((e - 1) \div 2) % Len(NetworkChainIds)) + 1

TypeOf(e) == EndpointTypes[((e - 1) % Len(EndpointTypes)) + 1]

\* ============================================== the probes on their own
\* The block times a node may report, as token sequences.
BlockTimes ==
    {<<>>,
     <<Junk>>,
     <<Dt(95)>>,
     <<Dt(95), Z>>,
     <<Dt(100), Z>>,
     <<Dt(102), Z>>,
     <<Dt(95), Dot, Digit(1), Z>>,
     <<Dt(95), Dot, Digit(1), Digit(2), Digit(3), Z>>,
     <<Dt(98), Dot, Digit(9), Digit(9), Digit(9), Z>>,
     <<Dt(95), Dot, Digit(1), Digit(2), Digit(3), Digit(4), Digit(5), Digit(6),
       Digit(7), Digit(8), Digit(9), Z>>,
     <<Dt(95), Dot, Digit(1), Digit(2), Digit(3), Digit(4), Digit(5), Digit(6),
       Digit(7), Digit(8), Digit(9)>>,
     <<Dt(155), Dot, Digit(5), Digit(0), Digit(0), Plus, Tz(60)>>,
     <<Dt(35), Dot, Digit(2), Digit(5), Digit(0), Minus, Tz(60)>>,
     <<Dt(95), Dot, Junk>>,
     <<Dt(95), Dot, Z>>,
     <<Dt(95), Junk>>}

\* A chain id of 600 characters, written short.
LongChainId == "chain-id-of-600-characters"

ChainIds == {None, Some(""), Some("cosmoshub-4"), Some("other-1"), Some(LongChainId)}

Heights == {None, Some("100")}

Bodies ==
    {Body("invalid", None, None, None), Body("nondict", None, None, None)}
    \cup {Body("object", c, h, t) :
            c \in ChainIds, h \in Heights,
            t \in {None} \cup {Some(ts) : ts \in BlockTimes}}

ExceptionMessages ==
    {Message({"handshake operation timed out"}, 60),
     Message({"Name or service not known"}, 60),
     Message({"Connection refused"}, 60),
     Message({"Timed Out"}, 30),
     Message({}, 20),
     Message({}, 450)}

\* What one get may do.
Responses ==
    {HttpResponse(st, b) : st \in {200, 299}, b \in Bodies}
    \cup {HttpResponse(st, NoBody) : st \in {199, 300, 404, 503}}
    \cup {HttpRaises(m) : m \in ExceptionMessages}

\* What each of the three gets of check_api_endpoint may do.
ApiResponses ==
    {HttpResponse(200, Body("object", Some("cosmoshub-4"), Some("100"),
                            Some(<<Dt(95), Z>>))),
     HttpResponse(200, Body("object", Some("other-1"), Some("100"),
                            Some(<<Dt(102), Z>>))),
     HttpResponse(200, Body("object", Some("cosmoshub-4"), Some("100"),
                            Some(<<Junk>>))),
     HttpResponse(200, Body("invalid", None, None, None)),
     HttpResponse(200, Body("nondict", None, None, None)),
     HttpResponse(404, NoBody),
     HttpResponse(503, NoBody)}
    \cup {HttpRaises(m) : m \in ExceptionMessages \ {Message({}, 450)}}

NowValues == {100000000, 100000999}

ExceptionLengths == {150, 450}

NotCalled == HttpRaises(NoMessage)

Input(fn, r1, r2, r3, expected, now, strict, msg) ==
    [fn |-> fn, r1 |-> r1, r2 |-> r2, r3 |-> r3, expected |-> expected,
     now |-> now, strict |-> strict, msg |-> msg]

NoInput == Input("none", NotCalled, NotCalled, NotCalled, None, 0, FALSE, NoMessage)

Inputs ==
    {Input(fn, r, NotCalled, NotCalled, x, now, strict, NoMessage) :
        fn \in {"rpc", "rest"}, r \in Responses, x \in ExpectedChainIds,
        now \in NowValues, strict \in BOOLEAN}
    \cup {Input("api", r1, r2, r3, x, WorkerNow, FALSE, NoMessage) :
        r1 \in ApiResponses, r2 \in ApiResponses, r3 \in ApiResponses,
        x \in ExpectedChainIds}
    \cup {Input("classify", NotCalled, NotCalled, NotCalled, None, 0, FALSE,
                Message(has, len)) :
        has \in SUBSET Phrases, len \in ExceptionLengths}

Output(run, rpc, api) == [run |-> run, rpc |-> rpc, api |-> api]

NoOutput == Output(ApiRun(Raise(NoMessage), <<>>), PlainError(""), PlainError(""))

PathStatus == "/status"

\* ------------------------------------------------- registry sync: the rows
\* Project.slug is unique and stands for the row's id; an Endpoint row is
\* identified by its url, which is unique over the whole table.
ProjectRow(slug, name) == [slug |-> slug, name |-> name]

NetworkRow(id, project, slug, name, chain_id, network_type) ==
    [id |-> id, project |-> project, slug |-> slug, name |-> name,
     chain_id |-> chain_id, network_type |-> network_type]

EndpointRow(network_id, name, type, url, enabled) ==
    [network_id |-> network_id, name |-> name, type |-> type, url |-> url,
     enabled |-> enabled]

Tables(projects, nets, eps) ==
    [projects |-> projects, networks |-> nets, endpoints |-> eps]

\* ----------------------------------------------- registry sync: the config
\* One entry of an endpoints list; enabled is None when the key is absent.
EndpointCfg(name, type, url, enabled) ==
    [name |-> name, type |-> type, url |-> url, enabled |-> enabled]

NetworkCfg(slug, name, chain_id, network_type, eps) ==
    [slug |-> slug, name |-> name, chain_id |-> chain_id,
     network_type |-> network_type, endpoints |-> eps]

ProjectCfg(slug, name, nets) == [slug |-> slug, name |-> name, networks |-> nets]

Config(projects) == [projects |-> projects]

\* ------------------------------------------------ registry sync: the session
\* The open session: the tables as the transaction sees them, the new
\* Endpoint objects not yet inserted, the urls of the rows marked for
\* deletion, and whether a flush has raised IntegrityError.
Session(db) ==
    [projects |-> db.projects, networks |-> db.networks,
     endpoints |-> db.endpoints, adds |-> <<>>, dels |-> {}, ok |-> TRUE]

Urls(eps) == {e.url : e \in eps}

Elements(seq) == {seq[i] : i \in 1..Len(seq)}

\* One flush: the pending INSERTs, then the pending DELETEs.  An insert of a
\* url that is in the table, or that another pending insert has, breaks the
\* unique constraint of Endpoint.url.
Flush(s) ==
    IF ~s.ok
    THEN s
    ELSE IF \/ \E i \in 1..Len(s.adds) : s.adds[i].url \in Urls(s.endpoints)
            \/ \E i, j \in 1..Len(s.adds) : i < j /\ s.adds[i].url = s.adds[j].url
         THEN [s EXCEPT !.ok = FALSE]
         ELSE [s EXCEPT !.endpoints = {e \in @ : e.url \notin s.dels}
                                         \cup Elements(s.adds),
                        !.adds = <<>>,
                        !.dels = {}]

\* A query flushes first when the session was made with autoflush.
Query(s, flush) == IF flush THEN Flush(s) ELSE s

\* bool(ep_cfg.get("enabled", True))
EnabledOf(ep_cfg) == IF ep_cfg.enabled = None THEN TRUE ELSE ep_cfg.enabled[1]

\* One entry of endpoints_cfg: created when its url is not among the
\* network's rows read before the loop, else updated in place.
SyncEndpoint(s, existing_endpoints, network_id, ep_cfg) ==
    IF ep_cfg.url \notin existing_endpoints
    THEN [s EXCEPT !.adds = Append(@, EndpointRow(network_id, ep_cfg.name, ep_cfg.type,
                                                  ep_cfg.url, EnabledOf(ep_cfg)))]
    ELSE [s EXCEPT !.endpoints =
              {IF e.url = ep_cfg.url
               THEN [e EXCEPT !.name = ep_cfg.name, !.type = ep_cfg.type,
                              !.enabled = EnabledOf(ep_cfg)]
               ELSE e : e \in @}]

RECURSIVE SyncEndpoints(_, _, _, _)
SyncEndpoints(s, existing_endpoints, network_id, endpoints_cfg) ==
    IF endpoints_cfg = <<>>
    THEN s
    ELSE SyncEndpoints(SyncEndpoint(s, existing_endpoints, network_id, Head(endpoints_cfg)),
                       existing_endpoints, network_id, Tail(endpoints_cfg))

NewId(table) ==
    IF table = {}
    THEN 1
    ELSE 1 + (CHOOSE i \in {r.id : r \in table} : \A r \in table : r.id <= i)

\* One entry of networks_cfg: the network is created and flushed, or updated;
\* then its endpoints are read, upserted, and the unlisted ones deleted.
SyncNetwork(s, existing_networks, project, net_cfg, flush) ==
    LET found == net_cfg.slug \in DOMAIN existing_networks
        id == IF found THEN existing_networks[net_cfg.slug] ELSE NewId(s.networks)
        row == NetworkRow(id, project, net_cfg.slug, net_cfg.name, net_cfg.chain_id,
                          net_cfg.network_type)
        s1 == IF found
              THEN [s EXCEPT !.networks = {IF n.id = id THEN row ELSE n : n \in @}]
              ELSE Flush([s EXCEPT !.networks = @ \cup {row}])
        s2 == Query(s1, flush)
        existing_endpoints == Urls({e \in s2.endpoints : e.network_id = id})
        cfg_urls == Urls(Elements(net_cfg.endpoints))
        s3 == SyncEndpoints(s2, existing_endpoints, id, net_cfg.endpoints)
    IN  IF ~s.ok THEN s
        ELSE IF ~s2.ok THEN s2
        ELSE [s3 EXCEPT !.dels = @ \cup (existing_endpoints \ cfg_urls)]

RECURSIVE SyncNetworks(_, _, _, _, _)
SyncNetworks(s, existing_networks, project, networks_cfg, flush) ==
    IF networks_cfg = <<>>
    THEN s
    ELSE SyncNetworks(SyncNetwork(s, existing_networks, project, Head(networks_cfg), flush),
                      existing_networks, project, Tail(networks_cfg), flush)

\* {n.slug: n for n in query}: of several rows with one slug the dictionary
\* keeps the one the query gives last, and the query has no ORDER BY.
ExistingNetworks(s, project, last) ==
    LET mine == {n \in s.networks : n.project = project}
    IN  [slug \in {n.slug : n \in mine} |->
            LET ids == {n.id : n \in {m \in mine : m.slug = slug}}
            IN  IF last
                THEN CHOOSE i \in ids : \A j \in ids : j <= i
                ELSE CHOOSE i \in ids : \A j \in ids : i <= j]

\* One entry of projects_cfg.
SyncProject(s, existing_projects, proj_cfg, flush, last) ==
    LET s1 == IF proj_cfg.slug \in existing_projects
              THEN [s EXCEPT !.projects =
                        {IF p.slug = proj_cfg.slug
                         THEN [p EXCEPT !.name = proj_cfg.name]
                         ELSE p : p \in @}]
              ELSE Flush([s EXCEPT !.projects =
                             @ \cup {ProjectRow(proj_cfg.slug, proj_cfg.name)}])
        s2 == Query(s1, flush)
    IN  IF ~s.ok THEN s
        ELSE SyncNetworks(s2, ExistingNetworks(s2, proj_cfg.slug, last), proj_cfg.slug,
                          proj_cfg.networks, flush)

RECURSIVE SyncProjects(_, _, _, _, _)
SyncProjects(s, existing_projects, projects_cfg, flush, last) ==
    IF projects_cfg = <<>>
    THEN s
    ELSE SyncProjects(SyncProject(s, existing_projects, Head(projects_cfg), flush, last),
                      existing_projects, Tail(projects_cfg), flush, last)

\* sync_from_config(db, cfg) as init_data calls it: the tables it leaves
\* committed, and whether it committed, returned early or raised.  The
\* session init_data closes after an exception has committed nothing.
SyncFromConfig(db, config, flush, last) ==
    IF config.projects = <<>>
    THEN [outcome |-> "returned", db |-> db]
    ELSE LET s == Flush(SyncProjects(Session(db), {p.slug : p \in db.projects},
                                     config.projects, flush, last))
         IN  IF s.ok
             THEN [outcome |-> "committed",
                   db |-> Tables(s.projects, s.networks, s.endpoints)]
             ELSE [outcome |-> "raised", db |-> db]

\* ------------------------------------------- registry sync: input domains
SyncUrls == {"https://rpc.one", "https://rpc.two"}

\* The entries a config lists: one with the enabled key absent, one disabled.
ListedEndpoints ==
    {EndpointCfg("a", "rpc", u, None) : u \in SyncUrls}
        \cup {EndpointCfg("b", "api", u, Some(FALSE)) : u \in SyncUrls}

AtMostOne(S) == {<<>>} \cup {<<a>> : a \in S}

AtMostTwo(S) == AtMostOne(S) \cup {<<a, b>> : a \in S, b \in S}

NetworkCfgs ==
    {NetworkCfg("hub", "Cosmos Hub", "cosmoshub-4", "mainnet", eps) :
        eps \in AtMostTwo(ListedEndpoints)}
        \cup {NetworkCfg("testnet", "Theta", "theta-testnet-001", "testnet", eps) :
                 eps \in AtMostOne(ListedEndpoints)}

Configs ==
    {Config(<<>>)}
        \cup {Config(<<ProjectCfg("cosmos", "Cosmos", nets)>>) :
                 nets \in AtMostTwo(NetworkCfgs)}

\* A project the config does not name, with its network and endpoint.
OtherProject == ProjectRow("osmosis", "Osmosis")

OtherNetwork == NetworkRow(NewId({}), "osmosis", "osmosis-1", "Osmosis", "osmosis-1", "mainnet")

OtherEndpoint == EndpointRow(OtherNetwork.id, "c", "rpc", "https://rpc.osmo", TRUE)

HubId == NewId({OtherNetwork})

TestnetId == NewId({OtherNetwork, [id |-> HubId]})

\* The stored rows of the config's project: written by an earlier config
\* (stale) or by this one.
StoredProject(stale) == ProjectRow("cosmos", IF stale THEN "Atom" ELSE "Cosmos")

StoredNetwork(id, stale) ==
    IF id = HubId
    THEN IF stale
         THEN NetworkRow(HubId, "cosmos", "hub", "Hub", "cosmoshub-3", "testnet")
         ELSE NetworkRow(HubId, "cosmos", "hub", "Cosmos Hub", "cosmoshub-4", "mainnet")
    ELSE NetworkRow(TestnetId, "cosmos", "testnet", "Theta", "theta-testnet-001", "testnet")

StoredEndpoint(network_id, kind, url) ==
    IF kind = "a"
    THEN EndpointRow(network_id, "a", "rpc", url, TRUE)
    ELSE EndpointRow(network_id, "b", "api", url, FALSE)

StoresOf(stale, nets) ==
    {Tables({OtherProject, StoredProject(stale)},
            {OtherNetwork} \cup {StoredNetwork(n, stale) : n \in nets},
            {OtherEndpoint}
                \cup {StoredEndpoint(at[u][1], at[u][2], u) :
                         u \in {v \in SyncUrls : at[v][1] # 0}}) :
        at \in [SyncUrls -> {<<0, "a">>} \cup (nets \X {"a", "b"})]}

Stores ==
    {Tables({OtherProject}, {OtherNetwork}, {OtherEndpoint})}
        \cup UNION {StoresOf(x[1], x[2]) :
                       x \in BOOLEAN \X SUBSET {HubId, TestnetId}}

SyncAbsent ==
    /\ autoflush = TRUE
    /\ cfg = Config(<<>>)
    /\ store = Tables({}, {}, {})
    /\ store_before = Tables({}, {}, {})
    /\ sync_outcome = "none"
    /\ spc = "none"

\* ------------------------------------------------------ network summary
Request(project_slug, network_type, max_delay) ==
    [project_slug |-> project_slug, network_type |-> network_type,
     max_delay |-> max_delay]

SummaryAbsent ==
    /\ request = Request("", "", None)
    /\ response = [status |-> 0, networks |-> <<>>]
    /\ hpc = "none"

\* The one project of the model and the network_type column of its networks.
ProjectSlug == "cosmos"

NetworkTypes == <<"mainnet", "testnet">>

\* Ascending order of the chain ids and of the endpoint types, as ORDER BY
\* gives them.
ChainIdOrder == <<"", "cosmoshub-4">>

TypeOrder == <<"api", "grpc", "rpc">>

Rank(order, x) == CHOOSE i \in 1..Len(order) : order[i] = x

\* The elements of S as the sequence ORDER BY makes of them.
SortBy(S, before) ==
    CHOOSE s \in [1..Cardinality(S) -> S] :
        \A i, j \in 1..Cardinality(S) :
            i < j => s[i] # s[j] /\ <<s[j], s[i]>> \notin before

\* order_by(Network.chain_id)
NetworkBefore(a, b) == Rank(ChainIdOrder, a.chain_id) < Rank(ChainIdOrder, b.chain_id)

\* order_by(Endpoint.type, Endpoint.name): the endpoints are named in the
\* order of their ids.
EndpointBefore(a, b) ==
    \/ Rank(TypeOrder, endpoints[a].type) < Rank(TypeOrder, endpoints[b].type)
    \/ endpoints[a].type = endpoints[b].type /\ a < b

\* datetime.isoformat()
IsoFormat(t) == <<"iso", t>>

\* One entry of eps_out; the endpoint's name and url are carried as its id.
EndpointOut(e) ==
    LET i == FirstStatus(db_status, e) IN
    IF i # 0
    THEN [endpoint |-> e,
          type |-> endpoints[e].type,
          enabled |-> endpoints[e].enabled,
          is_available |-> Some(db_status[i].is_available),
          status_code |-> db_status[i].status_code,
          block_delay_ms |-> db_status[i].block_delay_ms,
          last_block_height |-> db_status[i].last_block_height,
          error_message |-> db_status[i].error_message,
          checked_at |-> Some(IsoFormat(db_status[i].checked_at))]
    ELSE [endpoint |-> e,
          type |-> endpoints[e].type,
          enabled |-> endpoints[e].enabled,
          is_available |-> None,
          status_code |-> None,
          block_delay_ms |-> None,
          last_block_height |-> None,
          error_message |-> None,
          checked_at |-> None]

\* A slip that also drops the endpoints without a delay.
WithinMaxDelayDropsNull(ep, max_delay) ==
    ep.block_delay_ms # None /\ ep.block_delay_ms[1] <= max_delay

\* ep["block_delay_ms"] is None or ep["block_delay_ms"] <= max_delay
WithinMaxDelay(ep, max_delay) ==
    ep.block_delay_ms = None \/ ep.block_delay_ms[1] <= max_delay

\* The entry of networks_out for one network.
NetworkOut(n, max_delay) ==
    LET mine == {e \in EndpointIds : endpoints[e].network_id = n.id}
        ids == SortBy(mine, {p \in mine \X mine : EndpointBefore(p[1], p[2])})
        eps_out == [i \in 1..Len(ids) |-> EndpointOut(ids[i])]
    IN  [chain_id |-> n.chain_id,
         network_type |-> NetworkTypes[n.id],
         endpoints |-> IF max_delay # None
                       THEN SelectSeq(eps_out,
                                      LAMBDA ep : WithinMaxDelay(ep, max_delay[1]))
                       ELSE eps_out]

\* GET /api/projects/{project_slug}/{network_type}/summary
NetworkSummaryOf(req) ==
    IF req.max_delay # None /\ req.max_delay[1] < 0
    THEN [status |-> 422, networks |-> <<>>]
    ELSE IF req.project_slug # ProjectSlug
    THEN [status |-> 404, networks |-> <<>>]
    ELSE LET typed == {n \in networks : NetworkTypes[n.id] = req.network_type}
             found == SortBy(typed, {p \in typed \X typed : NetworkBefore(p[1], p[2])})
         IN  IF found = <<>>
             THEN [status |-> 404, networks |-> <<>>]
             ELSE [status |-> 200,
                   networks |-> [i \in 1..Len(found) |->
                                    NetworkOut(found[i], req.max_delay)]]

\* ------------------------------------------ network summary: input domains
Requests ==
    {Request(p, t, m) :
        p \in {ProjectSlug, "unknown"},
        t \in {"mainnet", "testnet", "devnet"},
        m \in {None, Some(-1), Some(0), Some(500)}}

\* What the worker may have stored for one endpoint: a result with a delay
\* or a failure without one.
StoredResults ==
    {ProbeTuple(TRUE, Some(200), Some(d), Some("100"), None) : d \in {0, 500, 501}}
        \cup {ProbeTuple(FALSE, None, None, None, Some(PlainError("REQUEST_TIMEOUT")))}

\* An EndpointStatus table with at most one row per endpoint.
RECURSIVE StatusTables(_)
StatusTables(n) ==
    IF n = 0
    THEN {<<>>}
    ELSE LET shorter == StatusTables(n - 1)
         IN  shorter \cup {Append(t, NewStatus(n, r, WorkerNow)) :
                              t \in shorter, r \in StoredResults}

Init ==
    /\ \E en \in [EndpointIds -> BOOLEAN] :
          endpoints = [e \in EndpointIds |->
                          [network_id |-> NetworkOf(e), type |-> TypeOf(e),
                           enabled |-> en[e]]]
    /\ networks = {[id |-> n, chain_id |-> NetworkChainIds[n]] : n \in NetworkIds}
    /\ batch_limit \in 1..MaxBatchLimit
    /\ db_checks = <<>>
    /\ db_status = <<>>
    /\ sess_checks = <<>>
    /\ sess_status = <<>>
    /\ pc = "loop"
    /\ rows = <<>>
    /\ idx = 1
    /\ clock = 0
    /\ iter = 0
    /\ probes = <<>>
    /\ raised = 0
    /\ pre_checks = <<>>
    /\ pre_status = <<>>
    /\ failed = {}
    /\ inp = NoInput
    /\ out = NoOutput
    /\ ppc = "none"
    /\ SyncAbsent
    /\ SummaryAbsent

\* ------------------------------------------------------------- main_loop
\* while True: db = SessionLocal(); process_batch(db) up to the for loop.
\* With no enabled endpoint process_batch returns at once.
BeginIteration ==
    /\ pc = "loop"
    /\ iter < MaxIter
    /\ iter' = iter + 1
    /\ \E s \in SelectRows :
          /\ rows' = s
          /\ pc' = IF Len(s) = 0 THEN "finally" ELSE "batch"
    /\ idx' = 1
    /\ sess_checks' = <<>>
    /\ sess_status' = db_status
    /\ probes' = <<>>
    /\ raised' = 0
    /\ pre_checks' = db_checks
    /\ pre_status' = db_status
    /\ UNCHANGED <<probe, sync, summary, registry, db_checks, db_status, clock, failed>>

\* The endpoint query itself fails (the database is unreachable).
QueryRaises ==
    /\ pc = "loop"
    /\ iter < MaxIter
    /\ iter' = iter + 1
    /\ pc' = "except"
    /\ failed' = failed \cup {iter + 1}
    /\ rows' = <<>>
    /\ idx' = 1
    /\ sess_checks' = <<>>
    /\ sess_status' = db_status
    /\ probes' = <<>>
    /\ raised' = 0
    /\ pre_checks' = db_checks
    /\ pre_status' = db_status
    /\ UNCHANGED <<probe, sync, summary, registry, db_checks, db_status, clock>>

\* A slip that writes the EndpointStatus straight to the table while the
\* Check still waits in the session.
CheckEndpointEagerStatus ==
    /\ pc = "batch"
    /\ idx <= Len(rows)
    /\ LET ep_id == rows[idx][1]
           net == rows[idx][2]
           now_utc == clock
       IN \E r \in CallProbe(endpoints[ep_id], net) :
             /\ sess_checks' = Append(sess_checks, NewCheck(ep_id, r, now_utc))
             /\ sess_status' = UpsertStatus(sess_status, ep_id, r, now_utc)
             /\ db_status' = UpsertStatus(db_status, ep_id, r, now_utc)
             /\ probes' = Append(probes, ep_id)
    /\ clock' = clock + 1
    /\ idx' = idx + 1
    /\ UNCHANGED <<probe, sync, summary, registry, db_checks, pc, rows, iter, raised,
                   pre_checks, pre_status, failed>>

\* A slip that disables an endpoint the probe found unavailable.
CheckEndpointDisablesFailing ==
    /\ pc = "batch"
    /\ idx <= Len(rows)
    /\ LET ep_id == rows[idx][1]
           net == rows[idx][2]
           now_utc == clock
       IN \E r \in CallProbe(endpoints[ep_id], net) :
             /\ sess_checks' = Append(sess_checks, NewCheck(ep_id, r, now_utc))
             /\ sess_status' = UpsertStatus(sess_status, ep_id, r, now_utc)
             /\ probes' = Append(probes, ep_id)
             /\ endpoints' = [endpoints EXCEPT ![ep_id].enabled = r.is_ok]
    /\ clock' = clock + 1
    /\ idx' = idx + 1
    /\ UNCHANGED <<probe, sync, summary, networks, batch_limit, db_checks, db_status, pc, rows,
                   iter, raised, pre_checks, pre_status, failed>>

\* One pass of the for loop body: stamp now_utc, probe, add the Check,
\* look the EndpointStatus up and insert or update it.
\* now_utc is read once, before the probe; the probe takes time, so the
\* next read of the clock returns a later instant.
CheckEndpoint ==
    /\ pc = "batch"
    /\ idx <= Len(rows)
    /\ LET ep_id == rows[idx][1]
           net == rows[idx][2]
           now_utc == clock
       IN \E r \in CallProbe(endpoints[ep_id], net) :
             /\ sess_checks' = Append(sess_checks, NewCheck(ep_id, r, now_utc))
             /\ sess_status' = UpsertStatus(sess_status, ep_id, r, now_utc)
             /\ probes' = Append(probes, ep_id)
    /\ clock' = clock + 1
    /\ idx' = idx + 1
    /\ UNCHANGED <<probe, sync, summary, registry, db_checks, db_status, pc, rows, iter, raised,
                   pre_checks, pre_status, failed>>

\* The for loop body raises at the EndpointStatus query, after the probe
\* returned and the Check was added: nothing in process_batch catches it.
EndpointRaises ==
    /\ pc = "batch"
    /\ idx <= Len(rows)
    /\ LET ep_id == rows[idx][1]
           net == rows[idx][2]
           now_utc == clock
       IN \E r \in CallProbe(endpoints[ep_id], net) :
             /\ sess_checks' = Append(sess_checks, NewCheck(ep_id, r, now_utc))
             /\ probes' = Append(probes, ep_id)
             /\ raised' = ep_id
    /\ clock' = clock + 1
    /\ pc' = "except"
    /\ failed' = failed \cup {iter}
    /\ UNCHANGED <<probe, sync, summary, registry, db_checks, db_status, sess_status, rows, idx, iter,
                   pre_checks, pre_status>>

\* A slip that commits when the last row is still to be processed.
CommitEarly ==
    /\ pc = "batch"
    /\ idx >= Len(rows)
    /\ db_checks' = db_checks \o sess_checks
    /\ db_status' = sess_status
    /\ sess_checks' = <<>>
    /\ pc' = "finally"
    /\ UNCHANGED <<probe, sync, summary, registry, sess_status, rows, idx, clock, iter, probes, raised,
                   pre_checks, pre_status, failed>>

\* A slip that keeps only the rows of the latest batch.
CommitReplacesHistory ==
    /\ pc = "batch"
    /\ idx > Len(rows)
    /\ db_checks' = sess_checks
    /\ db_status' = sess_status
    /\ sess_checks' = <<>>
    /\ pc' = "finally"
    /\ UNCHANGED <<probe, sync, summary, registry, sess_status, rows, idx, clock, iter, probes, raised,
                   pre_checks, pre_status, failed>>

\* db.commit() after the for loop: the session's work becomes durable.
Commit ==
    /\ pc = "batch"
    /\ idx > Len(rows)
    /\ db_checks' = db_checks \o sess_checks
    /\ db_status' = sess_status
    /\ sess_checks' = <<>>
    /\ pc' = "finally"
    /\ UNCHANGED <<probe, sync, summary, registry, sess_status, rows, idx, clock, iter, probes, raised,
                   pre_checks, pre_status, failed>>

\* db.commit() fails: the exception leaves process_batch.
CommitRaises ==
    /\ pc = "batch"
    /\ idx > Len(rows)
    /\ pc' = "except"
    /\ failed' = failed \cup {iter}
    /\ UNCHANGED <<probe, sync, summary, registry, db_checks, db_status, sess_checks, sess_status, rows,
                   idx, clock, iter, probes, raised, pre_checks, pre_status>>

\* A slip that lets the exception through: the loop ends.
RollbackExits ==
    /\ pc = "except"
    /\ sess_checks' = <<>>
    /\ sess_status' = db_status
    /\ pc' = "crashed"
    /\ UNCHANGED <<probe, sync, summary, registry, db_checks, db_status, rows, idx, clock, iter, probes,
                   raised, pre_checks, pre_status, failed>>

\* A slip that commits the session's work in the except branch.
RollbackKeepsWork ==
    /\ pc = "except"
    /\ db_checks' = db_checks \o sess_checks
    /\ db_status' = sess_status
    /\ sess_checks' = <<>>
    /\ pc' = "finally"
    /\ UNCHANGED <<probe, sync, summary, registry, sess_status, rows, idx, clock, iter, probes,
                   raised, pre_checks, pre_status, failed>>

\* except Exception: logger.exception(...); db.rollback()
Rollback ==
    /\ pc = "except"
    /\ sess_checks' = <<>>
    /\ sess_status' = db_status
    /\ pc' = "finally"
    /\ UNCHANGED <<probe, sync, summary, registry, db_checks, db_status, rows, idx, clock, iter, probes,
                   raised, pre_checks, pre_status, failed>>

\* finally: db.close()
Close ==
    /\ pc = "finally"
    /\ sess_checks' = <<>>
    /\ sess_status' = db_status
    /\ pc' = "sleep"
    /\ UNCHANGED <<probe, sync, summary, registry, db_checks, db_status, rows, idx, clock, iter, probes,
                   raised, pre_checks, pre_status, failed>>

\* time.sleep(CHECK_INTERVAL_SECONDS)
Sleep ==
    /\ pc = "sleep"
    /\ clock' = clock + 1
    /\ pc' = "loop"
    /\ UNCHANGED <<probe, sync, summary, registry, db_checks, db_status, sess_checks, sess_status, rows,
                   idx, iter, probes, raised, pre_checks, pre_status, failed>>

\* The process is killed: the open session's uncommitted work is lost.
Crash ==
    /\ pc # "crashed"
    /\ pc' = "crashed"
    /\ sess_checks' = <<>>
    /\ sess_status' = db_status
    /\ UNCHANGED <<probe, sync, summary, registry, db_checks, db_status, rows, idx, clock, iter, probes,
                   raised, pre_checks, pre_status, failed>>

LoopNext ==
    \/ BeginIteration
    \/ QueryRaises
    \/ CheckEndpoint
    \/ EndpointRaises
    \/ Commit
    \/ CommitRaises
    \/ Rollback
    \/ Close
    \/ Sleep

Next ==
    \/ LoopNext
    \/ Crash

Spec == Init /\ [][Next]_vars

\* The worker left running: every step of the loop that can be taken is taken.
FairSpec == Init /\ [][LoopNext]_vars /\ WF_vars(LoopNext)

\* No worker runs beside the probes: the tables are empty and main_loop
\* is not started.
WorkerAbsent ==
    /\ endpoints = [e \in EndpointIds |->
                       [network_id |-> NetworkOf(e), type |-> TypeOf(e),
                        enabled |-> FALSE]]
    /\ networks = {[id |-> n, chain_id |-> NetworkChainIds[n]] : n \in NetworkIds}
    /\ batch_limit = 1
    /\ db_checks = <<>>
    /\ db_status = <<>>
    /\ sess_checks = <<>>
    /\ sess_status = <<>>
    /\ pc = "crashed"
    /\ rows = <<>>
    /\ idx = 1
    /\ clock = 0
    /\ iter = 0
    /\ probes = <<>>
    /\ raised = 0
    /\ pre_checks = <<>>
    /\ pre_status = <<>>
    /\ failed = {}

ProbeInit ==
    /\ inp \in Inputs
    /\ out = NoOutput
    /\ ppc = "call"
    /\ WorkerAbsent
    /\ SyncAbsent
    /\ SummaryAbsent

\* check_rpc_endpoint(url, expected_chain_id)
CallRpc ==
    /\ ppc = "call"
    /\ inp.fn = "rpc"
    /\ out' = Output(ApiRun(CheckRpcEndpoint(inp.r1, inp.expected, inp.now, inp.strict),
                            <<PathStatus>>),
                     PlainError(""), PlainError(""))
    /\ ppc' = "done"
    /\ UNCHANGED <<inp, worker, sync, summary>>

\* _check_rest_block_latest(base_url, path, expected_chain_id)
CallRest ==
    /\ ppc = "call"
    /\ inp.fn = "rest"
    /\ out' = Output(ApiRun(CheckRestBlockLatest(inp.r1, inp.expected, inp.now, inp.strict),
                            <<PathNew>>),
                     PlainError(""), PlainError(""))
    /\ ppc' = "done"
    /\ UNCHANGED <<inp, worker, sync, summary>>

\* check_api_endpoint(url, expected_chain_id)
CallApi ==
    /\ ppc = "call"
    /\ inp.fn = "api"
    /\ out' = Output(CheckApiEndpointRun(inp.r1, inp.r2, inp.r3, inp.expected,
                                         inp.now, inp.strict),
                     PlainError(""), PlainError(""))
    /\ ppc' = "done"
    /\ UNCHANGED <<inp, worker, sync, summary>>

\* The two classifiers applied to one exception text.
CallClassify ==
    /\ ppc = "call"
    /\ inp.fn = "classify"
    /\ out' = Output(ApiRun(Raise(NoMessage), <<>>),
                     ClassifyRpc(inp.msg), NormalizeError(inp.msg))
    /\ ppc' = "done"
    /\ UNCHANGED <<inp, worker, sync, summary>>

ProbeNext ==
    \/ CallRpc
    \/ CallRest
    \/ CallApi
    \/ CallClassify

ProbeSpec == ProbeInit /\ [][ProbeNext]_vars

\* ============================================== the start-up registry sync
\* No start-up sync and no request run beside the probes.
ProbeAbsent ==
    /\ inp = NoInput
    /\ out = NoOutput
    /\ ppc = "none"

\* init_data at start-up: some stored registry, some config file, and a
\* session factory made with or without autoflush.
SyncInit ==
    /\ autoflush \in BOOLEAN
    /\ cfg \in Configs
    /\ store \in Stores
    /\ store_before = store
    /\ sync_outcome = "none"
    /\ spc = "start"
    /\ WorkerAbsent
    /\ ProbeAbsent
    /\ SummaryAbsent

\* init_data(): sync_from_config on a fresh session, which is then closed.
InitData ==
    /\ spc = "start"
    /\ \E last \in BOOLEAN :
          LET r == SyncFromConfig(store, cfg, autoflush, last) IN
          /\ store' = r.db
          /\ sync_outcome' = r.outcome
    /\ store_before' = store
    /\ spc' = "synced"
    /\ UNCHANGED <<worker, probe, summary, autoflush, cfg>>

\* The next start-up, with the same config file.
InitDataAgain ==
    /\ spc = "synced"
    /\ \E last \in BOOLEAN :
          LET r == SyncFromConfig(store, cfg, autoflush, last) IN
          /\ store' = r.db
          /\ sync_outcome' = r.outcome
    /\ store_before' = store
    /\ spc' = "resynced"
    /\ UNCHANGED <<worker, probe, summary, autoflush, cfg>>

SyncNext ==
    \/ InitData
    \/ InitDataAgain

SyncSpec == SyncInit /\ [][SyncNext]_vars

\* ================================================= the network summary
\* The API server answers one request over the tables the worker has
\* committed; the worker is not part of this specification.
SummaryInit ==
    /\ \E en \in [EndpointIds -> BOOLEAN] :
          endpoints = [e \in EndpointIds |->
                          [network_id |-> NetworkOf(e), type |-> TypeOf(e),
                           enabled |-> en[e]]]
    /\ networks = {[id |-> n, chain_id |-> NetworkChainIds[n]] : n \in NetworkIds}
    /\ batch_limit = 1
    /\ db_checks = <<>>
    /\ db_status \in StatusTables(NumEndpoints)
    /\ sess_checks = <<>>
    /\ sess_status = <<>>
    /\ pc = "crashed"
    /\ rows = <<>>
    /\ idx = 1
    /\ clock = 0
    /\ iter = 0
    /\ probes = <<>>
    /\ raised = 0
    /\ pre_checks = <<>>
    /\ pre_status = <<>>
    /\ failed = {}
    /\ ProbeAbsent
    /\ SyncAbsent
    /\ request \in Requests
    /\ response = [status |-> 0, networks |-> <<>>]
    /\ hpc = "request"

\* network_summary(project_slug, network_type, max_delay)
NetworkSummary ==
    /\ hpc = "request"
    /\ response' = NetworkSummaryOf(request)
    /\ hpc' = "done"
    /\ UNCHANGED <<worker, probe, sync, request>>

SummaryNext == NetworkSummary

SummarySpec == SummaryInit /\ [][SummaryNext]_vars

\* =================================================================== claims
ChecksOf(table, e) == SelectSeq(table, LAMBDA c : c.endpoint_id = e)

StatusOf(table, e) == SelectSeq(table, LAMBDA st : st.endpoint_id = e)

Occurrences(seq, x) == Cardinality({i \in 1..Len(seq) : seq[i] = x})

NoDuplicates(seq) == \A i, j \in 1..Len(seq) : seq[i] = seq[j] => i = j

RowIds == [i \in 1..Len(rows) |-> rows[i][1]]

IsPrefix(a, b) == Len(a) <= Len(b) /\ SubSeq(b, 1, Len(a)) = a

\* The status row and the check row carry the same probe result and stamp.
SameResult(st, c) ==
    /\ st.is_available = c.is_available
    /\ st.status_code = c.status_code
    /\ st.block_delay_ms = c.block_delay_ms
    /\ st.last_block_height = c.last_block_height
    /\ st.error_message = c.error_message
    /\ st.checked_at = c.checked_at

\* C1: when the step of one endpoint of a batch raises, the Check and
\* EndpointStatus rows of the other endpoints of that batch are persisted
\* by the end of the iteration.
C1_OthersPersisted ==
    (pc = "sleep" /\ raised # 0) =>
        \A i \in 1..Len(rows) :
            LET e == rows[i][1] IN
            e # raised =>
                /\ Len(ChecksOf(db_checks, e)) = Len(ChecksOf(pre_checks, e)) + 1
                /\ Len(StatusOf(db_status, e)) = 1

\* C2: an iteration k in which process_batch raised is always followed by
\* the start of iteration k+1: the exception does not end the loop.
C2_FailedIterationFollowed ==
    \A k \in 1..(MaxIter - 1) :
        (pc = "except" /\ iter = k) ~> (iter = k + 1 /\ pc # "crashed")

C2_Witness == 1 \in failed /\ iter = 2 /\ pc = "batch"

\* C3: batches and sleeps alternate.  The sleep is entered only from the
\* end of an iteration, with nothing of the batch left uncommitted or
\* unprobed (or the batch rolled back); process_batch starts only from the
\* top of the loop, once per iteration; after the sleep comes the next
\* iteration, not a second sleep.
BatchFinished ==
    /\ sess_checks = <<>>
    /\ sess_status = db_status
    /\ \/ iter \in failed /\ db_checks = pre_checks /\ db_status = pre_status
       \/ iter \notin failed /\ probes = RowIds
                             /\ Len(db_checks) = Len(pre_checks) + Len(rows)

C3_RunningIdleAlternate ==
    [][ /\ (pc # "sleep" /\ pc' = "sleep") => (pc = "finally" /\ BatchFinished')
        /\ (pc = "sleep" /\ pc' # "sleep") => (pc' \in {"loop", "crashed"} /\ iter' = iter)
        /\ (iter' # iter) => (pc = "loop" /\ iter' = iter + 1)
        /\ (pc = "loop" /\ pc' \notin {"loop", "crashed"}) =>
               (iter' = iter + 1 /\ pc' \in {"batch", "finally", "except"})
        /\ (pc \in {"batch", "except", "finally"}) =>
               pc' \in {"batch", "except", "finally", "sleep", "crashed"}
      ]_vars

C3_Witness ==
    /\ pc = "sleep"
    /\ iter = 2
    /\ iter \notin failed
    /\ Len(probes) = 2

\* C4: the committed table and the session's view hold at most one
\* EndpointStatus row per endpoint, exactly one once the endpoint has a
\* Check: the first check inserts it, later checks update it.
C4_OneStatusPerEndpoint ==
    \A e \in EndpointIds :
        /\ Len(StatusOf(sess_status, e)) <= 1
        /\ Len(StatusOf(db_status, e)) =
               (IF ChecksOf(db_checks, e) = <<>> THEN 0 ELSE 1)

C4_Witness ==
    \E e \in EndpointIds :
        /\ Len(ChecksOf(db_checks, e)) >= 2
        /\ Len(StatusOf(db_status, e)) = 1

\* C5: after an iteration, for every endpoint it processed, the committed
\* EndpointStatus row agrees with the endpoint's latest committed Check in
\* all six fields; after an iteration that committed, that Check is the
\* one of this iteration.
C5_StatusEqualsLatestCheck ==
    pc = "sleep" =>
        \A i \in 1..Len(probes) :
            LET e == probes[i]
                cs == ChecksOf(db_checks, e)
                st == StatusOf(db_status, e)
            IN /\ iter \notin failed =>
                      Len(cs) = Len(ChecksOf(pre_checks, e)) + 1
               /\ cs # <<>> =>
                      /\ Len(st) = 1
                      /\ SameResult(st[1], cs[Len(cs)])

C5_Witness ==
    /\ pc = "sleep"
    /\ iter \notin failed
    /\ \E i \in 1..Len(probes) :
          LET old == StatusOf(pre_status, probes[i])
              new == StatusOf(db_status, probes[i])
          IN /\ Len(old) = 1
             /\ Len(new) = 1
             /\ old[1].error_message # new[1].error_message

\* C6: in the committed store the checked_at of an EndpointStatus row is
\* never earlier than the checked_at of any Check of the same endpoint.
C6_StatusNotOlderThanChecks ==
    \A i \in 1..Len(db_status) :
        \A j \in 1..Len(db_checks) :
            db_checks[j].endpoint_id = db_status[i].endpoint_id =>
                db_status[i].checked_at >= db_checks[j].checked_at

C6_Witness ==
    \E i \in 1..Len(db_status) :
        \E j \in 1..Len(db_checks) :
            /\ db_checks[j].endpoint_id = db_status[i].endpoint_id
            /\ db_status[i].checked_at > db_checks[j].checked_at

\* C7: whatever point the worker has reached, a crash or a failed batch
\* included, every committed EndpointStatus row has a committed Check row
\* of the same endpoint with the same result and the same stamp.
C7_StatusNeverAheadOfCheck ==
    \A i \in 1..Len(db_status) :
        \E j \in 1..Len(db_checks) :
            /\ db_checks[j].endpoint_id = db_status[i].endpoint_id
            /\ SameResult(db_status[i], db_checks[j])

C7_Witness ==
    /\ pc = "crashed"
    /\ iter = 2
    /\ idx > 1
    /\ idx <= Len(rows)
    /\ db_checks = pre_checks
    /\ db_status # <<>>

C9_DisabledNeverChecked ==
    \A e \in EndpointIds :
        ~endpoints[e].enabled =>
            /\ Occurrences(RowIds, e) = 0
            /\ Occurrences(probes, e) = 0
            /\ ChecksOf(db_checks \o sess_checks, e) = <<>>
            /\ StatusOf(db_status, e) = <<>>
            /\ StatusOf(sess_status, e) = <<>>

C9_Witness ==
    /\ pc = "sleep"
    /\ db_checks # <<>>
    /\ \E e \in EndpointIds : ~endpoints[e].enabled
    /\ batch_limit > Cardinality(JoinEnabled)

\* C10: the batch lists every selected endpoint once; the probes of a run
\* follow that list, one probe and one added Check per endpoint reached,
\* and a run that reaches the commit has probed every selected endpoint
\* exactly once.
C10_ProbedOncePerBatch ==
    /\ NoDuplicates(RowIds)
    /\ NoDuplicates(probes)
    /\ IsPrefix(probes, RowIds)
    /\ pc \in {"batch", "except"} =>
          /\ Len(sess_checks) = Len(probes)
          /\ \A i \in 1..Len(probes) : sess_checks[i].endpoint_id = probes[i]
    /\ (pc = "batch" /\ idx > Len(rows)) => probes = RowIds
    /\ (pc \in {"finally", "sleep"} /\ iter \notin failed) =>
          /\ probes = RowIds
          /\ \A e \in EndpointIds :
                Len(ChecksOf(db_checks, e)) =
                    Len(ChecksOf(pre_checks, e)) + Occurrences(RowIds, e)

C10_Witness ==
    /\ pc = "batch"
    /\ idx > Len(rows)
    /\ Len(rows) = 2
    /\ Len(sess_checks) = 2

\* ------------------------------------------------------- probe claims
Strategies == <<PathNew, PathOld, PathBase>>

\* What strategy i of check_api_endpoint does on its own for the call at hand.
StrategyOutcome(i) ==
    IF i = 1 THEN CheckRestBlockLatest(inp.r1, inp.expected, inp.now, inp.strict)
    ELSE IF i = 2 THEN CheckRestBlockLatest(inp.r2, inp.expected, inp.now, inp.strict)
    ELSE CheckAlive(inp.r3)

ApiDone == ppc = "done" /\ inp.fn = "api"

\* C11: check_api_endpoint requests the three paths in their fixed order and
\* returns the result of the first strategy that does not raise, available
\* or not; the paths after that strategy are not requested.
C11_FirstReturnWins ==
    ApiDone =>
        /\ IsPrefix(out.run.requested, Strategies)
        /\ \A i \in 1..Len(Strategies) :
              (/\ ~StrategyOutcome(i).raised
               /\ \A j \in 1..(i - 1) : StrategyOutcome(j).raised)
              => /\ out.run.outcome = StrategyOutcome(i)
                 /\ out.run.requested = SubSeq(Strategies, 1, i)

C11_Witness ==
    /\ ApiDone
    /\ out.run.requested = <<PathNew>>
    /\ ~out.run.outcome.result.is_ok
    /\ out.run.outcome.result.error_msg = Some(PlainError("INVALID_BLOCK_TIME"))
    /\ ~StrategyOutcome(2).raised
    /\ StrategyOutcome(2).result.is_ok

\* C12: an API endpoint that answers 404 on both REST block paths and 200 on
\* the bare base URL is reported by check_api_endpoint as
\* (true, 200, null, null, null).
C12_LivenessFallbackAfter404 ==
    (/\ ApiDone
     /\ inp.r1 = HttpResponse(404, NoBody)
     /\ inp.r2 = HttpResponse(404, NoBody)
     /\ ~inp.r3.raises
     /\ inp.r3.status = 200)
    => out.run.outcome = Return(ProbeTuple(TRUE, Some(200), None, None, None))

AllRaised == ApiDone /\ \A i \in 1..Len(Strategies) : StrategyOutcome(i).raised

\* The classified errors of the three attempts, in attempt order.
AttemptErrors ==
    [i \in 1..Len(Strategies) |-> NormalizeError(StrategyOutcome(i).msg)]

AttemptOrders ==
    {p \in [1..Len(Strategies) -> 1..Len(Strategies)] :
        \A i, j \in 1..Len(Strategies) : p[i] = p[j] => i = j}

Permuted(errs, p) == [i \in 1..Len(Strategies) |-> errs[p[i]]]

HasCode(errs, code) == \E i \in 1..Len(Strategies) : errs[i].code = code

\* DNS over TLS over REQUEST_TIMEOUT over the error of the first attempt.
ByPrecedence(errs) ==
    IF HasCode(errs, "DNS_RESOLUTION_FAILED") THEN PlainError("DNS_RESOLUTION_FAILED")
    ELSE IF HasCode(errs, "TLS_HANDSHAKE_TIMEOUT") THEN PlainError("TLS_HANDSHAKE_TIMEOUT")
    ELSE IF HasCode(errs, "REQUEST_TIMEOUT") THEN PlainError("REQUEST_TIMEOUT")
    ELSE errs[1]

Ranked(errs) ==
    \/ HasCode(errs, "DNS_RESOLUTION_FAILED")
    \/ HasCode(errs, "TLS_HANDSHAKE_TIMEOUT")
    \/ HasCode(errs, "REQUEST_TIMEOUT")

\* C13 as stated: when all three strategies raise, the error returned is
\* the choice by precedence DNS > TLS > REQUEST_TIMEOUT > first attempt,
\* with null status, delay and height, and it is the same whichever
\* attempt produced which of the three errors.
C13_SameErrorInAnyOrder ==
    AllRaised =>
        /\ out.run.outcome =
              Return(ProbeTuple(FALSE, None, None, None,
                                Some(ByPrecedence(AttemptErrors))))
        /\ \A p \in AttemptOrders :
              MostHelpfulError(Permuted(AttemptErrors, p)) = ByPrecedence(AttemptErrors)

\* C13 amended: when all three strategies raise, the error returned is the
\* choice by precedence DNS > TLS > REQUEST_TIMEOUT > first attempt, with
\* null status, delay and height; it is the same in every order of the
\* attempts when one of the three errors is a DNS, TLS or REQUEST_TIMEOUT
\* error, and otherwise it is the error of whichever attempt came first.
C13_SameErrorWhenRanked ==
    AllRaised =>
        /\ out.run.outcome =
              Return(ProbeTuple(FALSE, None, None, None,
                                Some(ByPrecedence(AttemptErrors))))
        /\ \A p \in AttemptOrders :
              MostHelpfulError(Permuted(AttemptErrors, p)) =
                 IF Ranked(AttemptErrors) THEN ByPrecedence(AttemptErrors)
                 ELSE AttemptErrors[p[1]]

C13_Witness ==
    /\ AllRaised
    /\ AttemptErrors[1].code = "TLS_HANDSHAKE_TIMEOUT"
    /\ AttemptErrors[2].code = "EXCEPTION"
    /\ AttemptErrors[3].code = "DNS_RESOLUTION_FAILED"
    /\ out.run.outcome.result.error_msg = Some(PlainError("DNS_RESOLUTION_FAILED"))

ClassifyDone == ppc = "done" /\ inp.fn = "classify"

\* The patterns of the classifiers that an exception text matches.
MatchesTls(msg) == "handshake operation timed out" \in msg.has

MatchesDns(msg) ==
    \/ "Name or service not known" \in msg.has
    \/ "Temporary failure in name resolution" \in msg.has

MatchesRefused(msg) == "Connection refused" \in msg.has

MatchesTimeout(msg) ==
    msg.has \cap {"timed out", "Timed Out", "handshake operation timed out"} # {}

CodeByPrecedence(msg) ==
    IF MatchesTls(msg) THEN "TLS_HANDSHAKE_TIMEOUT"
    ELSE IF MatchesDns(msg) THEN "DNS_RESOLUTION_FAILED"
    ELSE IF MatchesRefused(msg) THEN "CONNECTION_REFUSED"
    ELSE IF MatchesTimeout(msg) THEN "REQUEST_TIMEOUT"
    ELSE "EXCEPTION"

\* C14: both classifiers give every exception text one code, the first that
\* matches in the order TLS_HANDSHAKE_TIMEOUT, DNS_RESOLUTION_FAILED,
\* CONNECTION_REFUSED, REQUEST_TIMEOUT, and EXCEPTION followed by the text
\* (its first 400 characters) when none matches, whatever else the text
\* matches.
C14_ClassifierPrecedence ==
    ClassifyDone =>
        /\ out.rpc = out.api
        /\ out.rpc.code = CodeByPrecedence(inp.msg)
        /\ out.rpc.code = "EXCEPTION" =>
              out.rpc.msg = Truncate(inp.msg, ExceptionTextLimit)
        /\ out.rpc.code # "EXCEPTION" => out.rpc = PlainError(out.rpc.code)

C14_Witness ==
    /\ ClassifyDone
    /\ MatchesTls(inp.msg)
    /\ MatchesDns(inp.msg)
    /\ MatchesRefused(inp.msg)
    /\ "Timed Out" \in inp.msg.has
    /\ out.rpc.code = "TLS_HANDSHAKE_TIMEOUT"
    /\ out.api.code = "TLS_HANDSHAKE_TIMEOUT"

BlockDone == ppc = "done" /\ inp.fn \in {"rpc", "rest"}

\* The block probe of the call at hand, had it been given another expected
\* chain id.
BlockProbe(expected_chain_id) ==
    IF inp.fn = "rpc"
    THEN CheckRpcEndpoint(inp.r1, expected_chain_id, inp.now, inp.strict)
    ELSE CheckRestBlockLatest(inp.r1, expected_chain_id, inp.now, inp.strict)

\* A 2xx answer whose JSON body has the expected shape.
BlockAnswered ==
    /\ ~inp.r1.raises
    /\ inp.r1.status >= 200
    /\ inp.r1.status < 300
    /\ inp.r1.body.json = "object"

\* An absent or empty chain id in the answer is no observed chain id.
ChainIdDiffers ==
    /\ BlockAnswered
    /\ Truthy(inp.expected)
    /\ Truthy(inp.r1.body.chain)
    /\ inp.r1.body.chain # inp.expected

\* C15: a 2xx JSON answer of the RPC or REST block probe whose chain id
\* differs from the expected one gives an unavailable result with error
\* CHAIN_ID_MISMATCH: expected=X, got=Y, and with the height of the answer
\* and the delay the same answer gives when no chain id is expected.
C15_MismatchKeepsFreshness ==
    (BlockDone /\ ChainIdDiffers) =>
        /\ ~out.run.outcome.raised
        /\ ~out.run.outcome.result.is_ok
        /\ out.run.outcome.result.http_status = Some(inp.r1.status)
        /\ out.run.outcome.result.error_msg =
              Some(Error("CHAIN_ID_MISMATCH", 0,
                         <<inp.expected[1], inp.r1.body.chain[1]>>, NoMessage))
        /\ out.run.outcome.result.block_height = inp.r1.body.height
        /\ out.run.outcome.result.block_delay_ms =
              BlockProbe(None).result.block_delay_ms

C15_Witness ==
    /\ BlockDone
    /\ ChainIdDiffers
    /\ inp.fn = "rest"
    /\ out.run.outcome.result.block_height = Some("100")
    /\ out.run.outcome.result.block_delay_ms = Some(4877)

\* An ISO 8601 text: the date and time, then an optional fraction, then an
\* optional Z or offset, and nothing else.
IsoShaped(ts) ==
    /\ Len(ts) >= 1
    /\ ts[1].k = "dt"
    /\ LET has_dot == Len(ts) >= 2 /\ ts[2].k = "."
           rest == IF has_dot THEN Drop(ts, 3 + DigitRun(ts, 3)) ELSE Drop(ts, 2)
       IN \/ rest = <<>>
          \/ Len(rest) = 1 /\ rest[1].k = "Z"
          \/ Len(rest) = 2 /\ rest[1].k \in {"+", "-"} /\ rest[2].k = "tz"

\* The answer carries a block time that is the empty string or not ISO text.
MalformedBlockTime ==
    /\ BlockAnswered
    /\ inp.r1.body.time # None
    /\ ~IsoShaped(inp.r1.body.time[1])

BlockInstant ==
    IF inp.r1.body.time = None THEN None
    ELSE ParseBlockTime(inp.r1.body.time[1], inp.strict)

\* max(0, d) in whole milliseconds, for a difference of d microseconds
WholeMillis(d) == IF d <= 0 THEN 0 ELSE d \div 1000

\* C17: block_delay_ms is null or >= 0; for a parsable block time it equals
\* max(0, now - block_time) in whole milliseconds, 0 for a block time at or
\* after now; a missing block time gives null, never 0.
C17_DelayIsClampedDifference ==
    (BlockDone /\ BlockAnswered) =>
        /\ out.run.outcome.result.block_delay_ms # None =>
              out.run.outcome.result.block_delay_ms[1] >= 0
        /\ inp.r1.body.time = None =>
              out.run.outcome.result.block_delay_ms = None
        /\ BlockInstant # None =>
              out.run.outcome.result.block_delay_ms =
                 Some(WholeMillis(inp.now - BlockInstant[1]))

ProbeDone == ppc = "done" /\ inp.fn \in {"rpc", "api"}

\* Every get the call at hand made ended in a transport exception.
TransportFailed ==
    IF inp.fn = "rpc" THEN inp.r1.raises
    ELSE inp.r1.raises /\ inp.r2.raises /\ inp.r3.raises

\* C18: check_rpc_endpoint and check_api_endpoint never raise, whatever the
\* transport, the HTTP status, the JSON body or the block time; the tuple
\* they return has is_available false exactly when error_message is not
\* null, and null status, delay and height after a transport exception.
C18_ProbesReturnTuple ==
    ProbeDone =>
        /\ ~out.run.outcome.raised
        /\ out.run.outcome.result.is_ok = (out.run.outcome.result.error_msg = None)
        /\ TransportFailed =>
              /\ ~out.run.outcome.result.is_ok
              /\ out.run.outcome.result.http_status = None
              /\ out.run.outcome.result.block_delay_ms = None
              /\ out.run.outcome.result.block_height = None

C18_Witness ==
    /\ ProbeDone
    /\ inp.fn = "rpc"
    /\ inp.r1.raises
    /\ out.run.outcome.result =
          ProbeTuple(FALSE, None, None, None, Some(PlainError("CONNECTION_REFUSED")))

\* ------------------------------------------------------ worker claims
UnknownType(e) == endpoints[e].type \notin {"rpc", "api"}

\* The probe result a Check or EndpointStatus row was written from.
ResultOf(row) ==
    ProbeTuple(row.is_available, row.status_code, row.block_delay_ms,
               row.last_block_height, row.error_message)

IsMismatch(row) ==
    row.error_message # None /\ row.error_message[1].code = "CHAIN_ID_MISMATCH"

\* C19: an endpoint whose type is neither rpc nor api is probed like the
\* others, by the API probe without an expected chain id: none of its rows
\* reports CHAIN_ID_MISMATCH, and a batch that selected it and committed
\* has added one Check for it and left one EndpointStatus equal to it.
C19_UnknownTypeStillChecked ==
    \A e \in EndpointIds :
        UnknownType(e) =>
            /\ \A i \in 1..Len(db_checks) :
                  db_checks[i].endpoint_id = e =>
                      /\ ~IsMismatch(db_checks[i])
                      /\ ResultOf(db_checks[i]) \in ApiResults[None]
            /\ \A i \in 1..Len(sess_checks) :
                  sess_checks[i].endpoint_id = e =>
                      /\ ~IsMismatch(sess_checks[i])
                      /\ ResultOf(sess_checks[i]) \in ApiResults[None]
            /\ \A i \in 1..Len(db_status) :
                  db_status[i].endpoint_id = e => ~IsMismatch(db_status[i])
            /\ \A i \in 1..Len(sess_status) :
                  sess_status[i].endpoint_id = e => ~IsMismatch(sess_status[i])
            /\ (pc \in {"finally", "sleep"} /\ iter \notin failed
                    /\ Occurrences(RowIds, e) = 1) =>
                  /\ Len(ChecksOf(db_checks, e)) = Len(ChecksOf(pre_checks, e)) + 1
                  /\ Len(StatusOf(db_status, e)) = 1
                  /\ SameResult(StatusOf(db_status, e)[1],
                                ChecksOf(db_checks, e)[Len(ChecksOf(db_checks, e))])

\* A committed Check of the grpc endpoint of network cosmoshub-4, written
\* from the answer of a node of another chain.
C19_Witness ==
    /\ pc = "sleep"
    /\ \E e \in EndpointIds :
          /\ UnknownType(e)
          /\ \E n \in networks : n.id = endpoints[e].network_id /\ n.chain_id # ""
          /\ \E i \in 1..Len(db_checks) :
                /\ db_checks[i].endpoint_id = e
                /\ db_checks[i].is_available
                /\ db_checks[i].block_delay_ms = Some(0)
          /\ Len(StatusOf(db_status, e)) = 1

\* C20: no step of the worker creates, changes or deletes an Endpoint or
\* Network row; process_batch writes Check and EndpointStatus rows only.
C20_RegistryReadOnly ==
    [][endpoints' = endpoints /\ networks' = networks]_vars

C20_Witness ==
    /\ pc = "sleep"
    /\ iter = MaxIter
    /\ Len(db_checks) >= 2
    /\ db_status # <<>>
    /\ failed = {}

\* C21: a run of process_batch selects and probes at most BATCH_LIMIT
\* endpoints, however many enabled endpoints the store holds.
C21_AtMostBatchLimitProbed ==
    /\ Len(rows) <= batch_limit
    /\ Len(probes) <= batch_limit
    /\ Len(sess_checks) <= batch_limit

C21_Witness ==
    /\ pc = "batch"
    /\ idx > Len(rows)
    /\ Cardinality(JoinEnabled) > batch_limit
    /\ Len(probes) = batch_limit

\* The error code that the order non-2xx > unparsable body > chain id
\* mismatch > uncomputable delay > available gives the answer at hand,
\* "" for available.
CodeByOrder ==
    IF inp.r1.status < 200 \/ inp.r1.status >= 300 THEN "HTTP_STATUS"
    ELSE IF inp.r1.body.json = "invalid" THEN "INVALID_JSON"
    ELSE IF /\ Truthy(inp.expected)
            /\ Truthy(inp.r1.body.chain)
            /\ inp.r1.body.chain # inp.expected
    THEN "CHAIN_ID_MISMATCH"
    ELSE IF BlockInstant = None THEN "INVALID_BLOCK_TIME"
    ELSE ""

ResultCode(t) == IF t.error_msg = None THEN "" ELSE t.error_msg[1].code

\* C22: for one HTTP response the RPC probe and the REST block strategy
\* decide in the order non-2xx status (delay and height null), unparsable
\* body, chain id mismatch, uncomputable delay, available; the result is
\* available exactly when none of the four failures applies.
C22_DecisionOrder ==
    (BlockDone /\ ~inp.r1.raises) =>
        /\ ~out.run.outcome.raised
        /\ ResultCode(out.run.outcome.result) = CodeByOrder
        /\ out.run.outcome.result.is_ok = (CodeByOrder = "")
        /\ out.run.outcome.result.http_status = Some(inp.r1.status)
        /\ CodeByOrder = "HTTP_STATUS" =>
              /\ out.run.outcome.result.block_delay_ms = None
              /\ out.run.outcome.result.block_height = None

\* len() of a chain id
TextLength(s) == IF s = LongChainId THEN 600 ELSE Len(s)

\* len(str(http_status))
StatusDigits(n) == IF n < 10 THEN 1 ELSE IF n < 100 THEN 2 ELSE 3

\* len() of an error_message as the f-strings of the probes build it.
ErrorLength(err) ==
    CASE err.code = "HTTP_STATUS" -> Len("HTTP_STATUS_") + StatusDigits(err.status)
      [] err.code = "INVALID_JSON" -> Len("INVALID_JSON: ") + err.msg.len
      [] err.code = "EXCEPTION" -> Len("EXCEPTION: ") + err.msg.len
      [] err.code = "CHAIN_ID_MISMATCH" ->
            Len("CHAIN_ID_MISMATCH: expected=") + TextLength(err.args[1])
                + Len(", got=") + TextLength(err.args[2])
      [] OTHER -> Len(err.code)

\* error_message = Column(String(500))
ErrorMessageColumn == 500

\* C23: every error_message a probe returns, of every kind, is short enough
\* for the 500-character error_message column.
C23_ErrorMessageFitsColumn ==
    (/\ ppc = "done"
     /\ inp.fn \in {"rpc", "rest", "api"}
     /\ ~out.run.outcome.raised
     /\ out.run.outcome.result.error_msg # None)
    => ErrorLength(out.run.outcome.result.error_msg[1]) <= ErrorMessageColumn

\* C24: until the commit of process_batch the persisted tables are those
\* of the start of the iteration, and when process_batch raised they still
\* are after the rollback and the close, whatever had been probed.
C24_FailedIterationLeavesNoTrace ==
    /\ pc \in {"batch", "except"} =>
          /\ db_checks = pre_checks
          /\ db_status = pre_status
    /\ (iter \in failed /\ pc \in {"finally", "sleep", "loop"}) =>
          /\ db_checks = pre_checks
          /\ db_status = pre_status
          /\ sess_checks = <<>>
          /\ sess_status = db_status

C24_Witness ==
    /\ pc = "sleep"
    /\ iter \in failed
    /\ raised # 0
    /\ Len(probes) = 2
    /\ db_checks # <<>>
    /\ db_checks = pre_checks

\* C25: the except branch of check_rpc_endpoint and _normalize_error give
\* the same error, code and text, for every exception message.
C25_ClassifiersAgree ==
    ClassifyDone => out.rpc = out.api

C25_Witness ==
    /\ ClassifyDone
    /\ inp.msg.has = {"Connection refused", "Temporary failure in name resolution"}
    /\ out.rpc = PlainError("DNS_RESOLUTION_FAILED")
    /\ out.api = PlainError("DNS_RESOLUTION_FAILED")

EnabledIds == {e \in EndpointIds : endpoints[e].enabled}

AllEnabledFit == Cardinality(EnabledIds) <= batch_limit

\* Every enabled endpoint has its EndpointStatus row and one Check more
\* than when the iteration started.
AllEnabledChecked ==
    \A e \in EnabledIds :
        /\ Len(StatusOf(db_status, e)) = 1
        /\ Len(ChecksOf(db_checks, e)) = Len(ChecksOf(pre_checks, e)) + 1

\* C26: with no more enabled endpoints than BATCH_LIMIT, an iteration that
\* ends without raising has given every enabled endpoint an EndpointStatus
\* row and one more Check; and the worker left running takes every
\* iteration it starts to its end, where either process_batch raised or
\* every enabled endpoint has been checked.
C26_EveryEnabledEndpointChecked ==
    /\ []((AllEnabledFit /\ pc \in {"finally", "sleep"} /\ iter >= 1
              /\ iter \notin failed) => AllEnabledChecked)
    /\ \A k \in 1..MaxIter :
          (AllEnabledFit /\ iter = k /\ pc = "batch")
             ~> (/\ iter = k
                 /\ pc = "sleep"
                 /\ (k \in failed \/ AllEnabledChecked))

C26_Witness ==
    /\ pc = "sleep"
    /\ iter = MaxIter
    /\ failed = {}
    /\ Cardinality(EnabledIds) = 2
    /\ batch_limit = 2
    /\ \A e \in EnabledIds : Len(ChecksOf(db_checks, e)) = MaxIter

\* ---------------------------------------------------------------- C27
SyncCommitted == spc \in {"synced", "resynced"} /\ sync_outcome = "committed"

\* The (project, network) slugs the config names.
NamedNetworks ==
    UNION {{<<p.slug, n.slug>> : n \in Elements(p.networks)} :
              p \in Elements(cfg.projects)}

\* The endpoint entries the config lists for one network.
ListedFor(project, slug) ==
    UNION {UNION {Elements(n.endpoints) :
                     n \in {m \in Elements(p.networks) : m.slug = slug}} :
              p \in {q \in Elements(cfg.projects) : q.slug = project}}

StoredFor(project, slug) ==
    {e \in store.endpoints :
        \E n \in store.networks :
            n.project = project /\ n.slug = slug /\ e.network_id = n.id}

NetworkMirrorsConfig(project, slug) ==
    /\ \E n \in store.networks : n.project = project /\ n.slug = slug
    /\ Urls(StoredFor(project, slug)) = Urls(ListedFor(project, slug))
    /\ \A e \in StoredFor(project, slug) :
          \E c \in ListedFor(project, slug) :
              /\ c.url = e.url
              /\ c.name = e.name
              /\ c.type = e.type
              /\ EnabledOf(c) = e.enabled

NothingDeleted ==
    /\ {p.slug : p \in store_before.projects} \subseteq {p.slug : p \in store.projects}
    /\ {n.id : n \in store_before.networks} \subseteq {n.id : n \in store.networks}

\* C27: after sync_from_config commits, every network the config names
\* stores exactly the endpoint urls the config lists for it, each with the
\* listed name, type and enabled; no Project or Network row is gone; and a
\* second run with the same config leaves the tables as the first left them.
C27_SyncMirrorsConfig ==
    /\ SyncCommitted =>
          /\ \A pn \in NamedNetworks : NetworkMirrorsConfig(pn[1], pn[2])
          /\ NothingDeleted
    /\ spc = "resynced" => store = store_before

\* ---------------------------------------------------------------- C28
SummaryDone == hpc = "done" /\ response.status = 200

\* block_delay_ms of the endpoint's status row, None without a row.
StoredDelay(e) ==
    IF FirstStatus(db_status, e) = 0
    THEN None
    ELSE db_status[FirstStatus(db_status, e)].block_delay_ms

EndpointsOf(n) == {e \in EndpointIds : endpoints[e].network_id = n.id}

RequestedNetworks == {n \in networks : NetworkTypes[n.id] = request.network_type}

\* The entries the answer lists under the network's chain id.
EntriesOf(n) ==
    UNION {Elements(response.networks[i].endpoints) :
              i \in {j \in 1..Len(response.networks) :
                        response.networks[j].chain_id = n.chain_id}}

ListedIn(n) == {ep.endpoint : ep \in EntriesOf(n)}

\* C28: an answered summary lists every network of the requested type with
\* endpoints of that network only, each with its stored block_delay_ms.
\* With max_delay given, no listed endpoint has a stored delay above it and
\* every endpoint with a stored delay up to it, a null delay or no status
\* row is listed; without max_delay every endpoint of the network is listed.
C28_MaxDelayFilter ==
    SummaryDone =>
        \A n \in RequestedNetworks :
            /\ \E i \in 1..Len(response.networks) :
                  response.networks[i].chain_id = n.chain_id
            /\ ListedIn(n) \subseteq EndpointsOf(n)
            /\ \A ep \in EntriesOf(n) : ep.block_delay_ms = StoredDelay(ep.endpoint)
            /\ IF request.max_delay # None
               THEN /\ \A e \in ListedIn(n) :
                          StoredDelay(e) = None \/ ~(StoredDelay(e)[1] > request.max_delay[1])
                    /\ \A e \in EndpointsOf(n) :
                          (StoredDelay(e) = None \/ StoredDelay(e)[1] <= request.max_delay[1])
                              => e \in ListedIn(n)
               ELSE ListedIn(n) = EndpointsOf(n)

\* A summary with max_delay 500 that keeps an endpoint stored at 500 ms and
\* one that was never checked or has no delay, and drops one stored at 501.
C28_Witness ==
    /\ SummaryDone
    /\ request.max_delay = Some(500)
    /\ \E n \in RequestedNetworks :
          \E kept, dropped \in EndpointsOf(n) :
              /\ StoredDelay(kept) \in {None, Some(500)}
              /\ kept \in ListedIn(n)
              /\ StoredDelay(dropped) = Some(501)
              /\ dropped \notin ListedIn(n)

====
